---------------------------- MODULE Spec2Model ----------------------------
(***************************************************************************)
(* Model of the "Higienizador de Dívida Ativa" client-side core            *)
(* (services/excelProcessor: parseDate, parseAmount, processData).         *)
(*                                                                         *)
(* Representation                                                          *)
(*   - a JS string is a sequence of one-character strings;                 *)
(*   - a JS number is an integer count of hundredths (1234.56 is 123456);  *)
(*     digits past the second decimal are outside the model;               *)
(*   - a Date is a local wall-clock record [y, m, d, h] (h = hour of day); *)
(*   - a raw cell is a record [t, n, s, dt], t being the variant tag       *)
(*     "undef" | "num" | "str" | "date";                                   *)
(*   - a row is a function from column names to cells.                     *)
(***************************************************************************)
EXTENDS Integers, Sequences, FiniteSets, TLC

(***************************************************************************)
(* Bounds of the model.                                                    *)
(***************************************************************************)
MaxRows == 2

(***************************************************************************)
(* Characters and strings.                                                 *)
(***************************************************************************)
DigitChars == <<"0", "1", "2", "3", "4", "5", "6", "7", "8", "9">>

DigitValues == [c \in {DigitChars[i] : i \in 1..Len(DigitChars)} |->
                   (CHOOSE i \in 1..Len(DigitChars) : DigitChars[i] = c) - 1]

IsDigit(c) == c \in DOMAIN DigitValues

DigitVal(c) == DigitValues[c]

IsWs(c) == c = " "

LowerChars == <<"a", "b", "c", "d", "e", "f", "g", "h", "i", "j", "k", "l", "m",
                "n", "o", "p", "q", "r", "s", "t", "u", "v", "w", "x", "y", "z",
                "á", "ã", "ç", "é">>

UpperChars == <<"A", "B", "C", "D", "E", "F", "G", "H", "I", "J", "K", "L", "M",
                "N", "O", "P", "Q", "R", "S", "T", "U", "V", "W", "X", "Y", "Z",
                "Á", "Ã", "Ç", "É">>

UpperOf == [c \in {LowerChars[i] : i \in 1..Len(LowerChars)} |->
               UpperChars[CHOOSE i \in 1..Len(LowerChars) : LowerChars[i] = c]]

\* One character of String.prototype.toUpperCase.
UpperChar(c) == IF c \in DOMAIN UpperOf THEN UpperOf[c] ELSE c

\* String.prototype.toUpperCase.
ToUpperCase(s) == [i \in 1..Len(s) |-> UpperChar(s[i])]

RECURSIVE TrimStart(_)
TrimStart(s) ==
    IF s # <<>> /\ IsWs(Head(s)) THEN TrimStart(Tail(s)) ELSE s

RECURSIVE TrimEnd(_)
TrimEnd(s) ==
    IF s # <<>> /\ IsWs(s[Len(s)]) THEN TrimEnd(SubSeq(s, 1, Len(s) - 1)) ELSE s

\* String.prototype.trim.
Trim(s) == TrimEnd(TrimStart(s))

\* String.prototype.includes.
Includes(s, k) ==
    \E i \in 1..(Len(s) + 1) :
        /\ i + Len(k) - 1 <= Len(s)
        /\ SubSeq(s, i, i + Len(k) - 1) = k

HasChar(s, c) == \E i \in 1..Len(s) : s[i] = c

\* s.replace(/[^0-9]/g, '')
DigitsOnly(s) == SelectSeq(s, IsDigit)

\* s.replace(/\./g, '')
RemoveDots(s) == SelectSeq(s, LAMBDA c : c # ".")

\* s.replace(',', '.') : only the first comma is replaced.
ReplaceFirstComma(s) ==
    IF HasChar(s, ",")
    THEN LET k == CHOOSE i \in 1..Len(s) :
                      s[i] = "," /\ \A j \in 1..(i - 1) : s[j] # ","
         IN  [i \in 1..Len(s) |-> IF i = k THEN "." ELSE s[i]]
    ELSE s

\* s.replace(/R\$\s*/g, '') : every "R$" and the whitespace after it.
RECURSIVE StripCurrency(_)
StripCurrency(s) ==
    IF Len(s) >= 2 /\ s[1] = "R" /\ s[2] = "$"
    THEN StripCurrency(TrimStart(SubSeq(s, 3, Len(s))))
    ELSE IF s = <<>> THEN <<>>
    ELSE <<Head(s)>> \o StripCurrency(Tail(s))

AllDigits(s) == \A i \in 1..Len(s) : IsDigit(s[i])

\* parseInt of a string of digits.
RECURSIVE ParseInt(_)
ParseInt(s) ==
    IF s = <<>> THEN 0
    ELSE 10 * ParseInt(SubSeq(s, 1, Len(s) - 1)) + DigitVal(s[Len(s)])

\* The longest prefix of s made of digits.
RECURSIVE DigitPrefix(_)
DigitPrefix(s) ==
    IF s # <<>> /\ IsDigit(Head(s)) THEN <<Head(s)>> \o DigitPrefix(Tail(s)) ELSE <<>>

\* Decimal digits of a natural number.
RECURSIVE NatToStr(_)
NatToStr(n) ==
    IF n < 10 THEN <<DigitChars[n + 1]>>
    ELSE NatToStr(n \div 10) \o <<DigitChars[(n % 10) + 1]>>

Pad2(n) == IF n < 10 THEN <<"0">> \o NatToStr(n) ELSE NatToStr(n)

\* Template-literal conversion of a number (hundredths) to a string.
NumToStr(n) ==
    LET a    == IF n < 0 THEN -n ELSE n
        sign == IF n < 0 THEN <<"-">> ELSE <<>>
        frac == a % 100
    IN  sign \o NatToStr(a \div 100) \o
        (IF frac = 0 THEN <<>>
         ELSE IF frac % 10 = 0 THEN <<".", DigitChars[(frac \div 10) + 1]>>
         ELSE <<".">> \o Pad2(frac))

(***************************************************************************)
(* Dates: local wall-clock time [y, m, d, h], m in 1..12, h in 0..23.      *)
(***************************************************************************)
NoDate == [y |-> 0, m |-> 0, d |-> 0, h |-> 0]

IsLeap(y) == (y % 4 = 0 /\ y % 100 # 0) \/ y % 400 = 0

DaysInMonth(y, m) ==
    IF m = 2 THEN (IF IsLeap(y) THEN 29 ELSE 28)
    ELSE IF m \in {4, 6, 9, 11} THEN 30 ELSE 31

DaysInYear(y) == IF IsLeap(y) THEN 366 ELSE 365

\* Day overflow of the Date constructor: d >= 0, m in 1..12.
RECURSIVE NormDay(_, _, _, _)
NormDay(y, m, d, h) ==
    IF d = 0
    THEN LET py == IF m = 1 THEN y - 1 ELSE y
             pm == IF m = 1 THEN 12 ELSE m - 1
         IN  [y |-> py, m |-> pm, d |-> DaysInMonth(py, pm), h |-> h]
    ELSE IF m = 1 /\ d > DaysInYear(y)
    THEN NormDay(y + 1, 1, d - DaysInYear(y), h)
    ELSE IF d > DaysInMonth(y, m)
    THEN NormDay(IF m = 12 THEN y + 1 ELSE y, IF m = 12 THEN 1 ELSE m + 1,
                 d - DaysInMonth(y, m), h)
    ELSE [y |-> y, m |-> m, d |-> d, h |-> h]

\* new Date(year, monthIndex, day) followed by setHours(h): two-digit years
\* are taken in 1900..1999, month and day overflow into the next unit.
MakeDateH(year, monthIndex, day, h) ==
    LET y0 == IF year >= 0 /\ year <= 99 THEN 1900 + year ELSE year
    IN  NormDay(y0 + (monthIndex \div 12), (monthIndex % 12) + 1, day, h)

\* new Date(year, monthIndex, day): local midnight.
MakeDate(year, monthIndex, day) == MakeDateH(year, monthIndex, day, 0)

\* a < b on Dates (comparison of the time values).
DateBefore(a, b) ==
    \/ a.y < b.y
    \/ a.y = b.y /\ a.m < b.m
    \/ a.y = b.y /\ a.m = b.m /\ a.d < b.d
    \/ a.y = b.y /\ a.m = b.m /\ a.d = b.d /\ a.h < b.h

\* date.setFullYear(date.getFullYear() - years): month, day and time are
\* kept, 29 February overflowing into 1 March of a common year.
SubtractYears(date, years) == MakeDateH(date.y - years, date.m - 1, date.d, date.h)

\* date.toLocaleDateString('pt-BR') : dd/mm/yyyy.
FormatDatePtBR(date) ==
    Pad2(date.d) \o <<"/">> \o Pad2(date.m) \o <<"/">> \o NatToStr(date.y)

(***************************************************************************)
(* Raw cell values.                                                        *)
(***************************************************************************)
Undef == [t |-> "undef", n |-> 0, s |-> <<>>, dt |-> NoDate]

Num(n) == [t |-> "num", n |-> n, s |-> <<>>, dt |-> NoDate]

Str(s) == [t |-> "str", n |-> 0, s |-> s, dt |-> NoDate]

DateCell(date) == [t |-> "date", n |-> 0, s |-> <<>>, dt |-> date]

\* String(date): "Www Mmm dd yyyy ...", the weekday and month names being
\* kept abstract.
DateToString(date) ==
    <<"W", "w", "w", " ", "M", "m", "m", " ">> \o Pad2(date.d) \o <<" ">> \o NatToStr(date.y)

\* !value
Falsy(v) ==
    \/ v.t = "undef"
    \/ v.t = "num" /\ v.n = 0
    \/ v.t = "str" /\ v.s = <<>>

\* String(value || '')
StringOf(v) ==
    IF Falsy(v) THEN <<>>
    ELSE IF v.t = "num" THEN NumToStr(v.n)
    ELSE IF v.t = "str" THEN v.s
    ELSE DateToString(v.dt)

\* row[col]
Get(row, col) == IF col \in DOMAIN row THEN row[col] ELSE Undef

(***************************************************************************)
(* parseDate.                                                              *)
(***************************************************************************)
None == [ok |-> FALSE, dt |-> NoDate]

Some(date) == [ok |-> TRUE, dt |-> date]

\* XLSX.SSF.parse_date_code(v) followed by new Date(date.y, date.m - 1,
\* date.d), for a serial v given in hundredths: null below zero, serial 60
\* is the 29 February 1900 of the spreadsheet, serial 1 is 1 January 1900.
SerialToDate(n) ==
    LET days == n \div 100
    IN  IF n < 0 THEN None
        ELSE IF days = 60 THEN Some(MakeDate(1900, 1, 29))
        ELSE IF days = 0 THEN Some(MakeDate(1900, 0, 0))
        ELSE Some(MakeDate(1900, 0, IF days > 60 THEN days - 1 ELSE days))

\* /^(\d{2})\/(\d{2})\/(\d{4})$/ with sep = "/", /^(\d{2})-(\d{2})-(\d{4})$/
\* with sep = "-".
MatchDMY(s, sep) ==
    /\ Len(s) = 10
    /\ AllDigits(SubSeq(s, 1, 2)) /\ s[3] = sep
    /\ AllDigits(SubSeq(s, 4, 5)) /\ s[6] = sep
    /\ AllDigits(SubSeq(s, 7, 10))

\* /^(\d{4})-(\d{2})-(\d{2})$/
MatchYMD(s) ==
    /\ Len(s) = 10
    /\ AllDigits(SubSeq(s, 1, 4)) /\ s[5] = "-"
    /\ AllDigits(SubSeq(s, 6, 7)) /\ s[8] = "-"
    /\ AllDigits(SubSeq(s, 9, 10))

ParseDateString(value) ==
    LET cleaned == Trim(value)
        year    == ParseInt(cleaned)
        dmy     == MakeDate(ParseInt(SubSeq(cleaned, 7, 10)),
                            ParseInt(SubSeq(cleaned, 4, 5)) - 1,
                            ParseInt(SubSeq(cleaned, 1, 2)))
        ymd     == MakeDate(ParseInt(SubSeq(cleaned, 1, 4)),
                            ParseInt(SubSeq(cleaned, 6, 7)) - 1,
                            ParseInt(SubSeq(cleaned, 9, 10)))
    IN  IF Len(cleaned) = 4 /\ AllDigits(cleaned) /\ year >= 1900 /\ year <= 2100
        THEN Some(MakeDate(year, 0, 1))
        ELSE IF MatchDMY(cleaned, "/") THEN Some(dmy)
        ELSE IF MatchYMD(cleaned) THEN Some(ymd)
        ELSE IF MatchDMY(cleaned, "-") THEN Some(dmy)
        ELSE None

parseDate(value) ==
    IF Falsy(value) THEN None
    ELSE IF value.t = "date" THEN Some(value.dt)
    ELSE IF value.t = "num"
    THEN (IF value.n >= 1900 * 100 /\ value.n <= 2100 * 100
          THEN Some(MakeDate(value.n \div 100, 0, 1))
          ELSE SerialToDate(value.n))
    ELSE ParseDateString(value.s)

(***************************************************************************)
(* parseAmount.                                                            *)
(***************************************************************************)
NaN == [ok |-> FALSE, n |-> 0]

\* parseFloat on a string without exponent: leading whitespace, an optional
\* sign, digits, an optional fraction; the longest such prefix is read and a
\* prefix without any digit is NaN.
ParseFloat(str) ==
    LET s0    == TrimStart(str)
        neg   == s0 # <<>> /\ Head(s0) = "-"
        s1    == IF s0 # <<>> /\ Head(s0) \in {"-", "+"} THEN Tail(s0) ELSE s0
        int   == DigitPrefix(s1)
        rest  == SubSeq(s1, Len(int) + 1, Len(s1))
        frac  == IF rest # <<>> /\ Head(rest) = "." THEN DigitPrefix(Tail(rest)) ELSE <<>>
        frac2 == SubSeq(frac \o <<"0", "0">>, 1, 2)
        abs   == ParseInt(int) * 100 + ParseInt(frac2)
    IN  IF int = <<>> /\ frac = <<>> THEN NaN
        ELSE [ok |-> TRUE, n |-> IF neg THEN -abs ELSE abs]

ParseAmountString(value) ==
    LET stripped == Trim(StripCurrency(value))
        cleaned  == IF HasChar(stripped, ",") /\ HasChar(stripped, ".")
                    THEN ReplaceFirstComma(RemoveDots(stripped))
                    ELSE IF HasChar(stripped, ",")
                    THEN ReplaceFirstComma(stripped)
                    ELSE stripped
        num      == ParseFloat(cleaned)
    IN  IF num.ok THEN num.n ELSE 0

parseAmount(value) ==
    IF Falsy(value) THEN 0
    ELSE IF value.t = "num" THEN value.n
    ELSE IF value.t = "str" THEN ParseAmountString(value.s)
    ELSE 0

(***************************************************************************)
(* Status labels and reason texts of processData.                          *)
(***************************************************************************)
\* 'Válido'
Valido ==
    <<"V", "á", "l", "i", "d", "o">>

\* 'Prescrito'
Prescrito ==
    <<"P", "r", "e", "s", "c", "r", "i", "t", "o">>

\* 'Imune'
Imune ==
    <<"I", "m", "u", "n", "e">>

\* 'Isento'
Isento ==
    <<"I", "s", "e", "n", "t", "o">>

\* 'Dados Incompletos'
DadosIncompletos ==
    <<"D", "a", "d", "o", "s", " ", "I", "n", "c", "o", "m", "p", "l", "e",
      "t", "o", "s">>

\* 'Vencimento anterior a '
MotivoPrescritoPrefix ==
    <<"V", "e", "n", "c", "i", "m", "e", "n", "t", "o", " ", "a", "n", "t",
      "e", "r", "i", "o", "r", " ", "a", " ">>

\* 'Entidade Imune identificada por palavra-chave'
MotivoImune ==
    <<"E", "n", "t", "i", "d", "a", "d", "e", " ", "I", "m", "u", "n", "e",
      " ", "i", "d", "e", "n", "t", "i", "f", "i", "c", "a", "d", "a", " ",
      "p", "o", "r", " ", "p", "a", "l", "a", "v", "r", "a", "-", "c", "h",
      "a", "v", "e">>

\* 'Valor abaixo de R$ '
MotivoValorPrefix ==
    <<"V", "a", "l", "o", "r", " ", "a", "b", "a", "i", "x", "o", " ", "d",
      "e", " ", "R", "$", " ">>

\* 'Tributo Isento'
MotivoTributo ==
    <<"T", "r", "i", "b", "u", "t", "o", " ", "I", "s", "e", "n", "t", "o">>

\* 'Nome ou CPF/CNPJ inválido/genérico'
MotivoIncompleto ==
    <<"N", "o", "m", "e", " ", "o", "u", " ", "C", "P", "F", "/", "C", "N",
      "P", "J", " ", "i", "n", "v", "á", "l", "i", "d", "o", "/", "g", "e",
      "n", "é", "r", "i", "c", "o">>

(***************************************************************************)
(* processData: validation of the required columns.                        *)
(***************************************************************************)
\* Variant: the required columns listed in the opposite order.
RequiredCols_Reversed(mapping) ==
    <<mapping.amount, mapping.due_date, mapping.taxpayer_name, mapping.debt_id>>

\* [mapping.debt_id, mapping.taxpayer_name, mapping.due_date, mapping.amount]
RequiredCols(mapping) ==
    <<mapping.debt_id, mapping.taxpayer_name, mapping.due_date, mapping.amount>>

\* Variant: no column is missed when there is no row.
IsMissingCol_SomeRow(data, col) ==
    /\ col # ""
    /\ data # <<>>
    /\ col \notin DOMAIN data[1]

\* Variant: a column counts as present when any row has it.
IsMissingCol_AnyRow(data, col) ==
    /\ col # ""
    /\ \A i \in 1..Len(data) : col \notin DOMAIN data[i]

\* col && !data[0]?.hasOwnProperty(col)
IsMissingCol(data, col) ==
    /\ col # ""
    /\ (data = <<>> \/ col \notin DOMAIN data[1])

\* requiredCols.filter(col => col && !data[0]?.hasOwnProperty(col))
MissingCols(data, mapping) ==
    SelectSeq(RequiredCols(mapping), LAMBDA col : IsMissingCol(data, col))

\* cols.join(', ')
RECURSIVE Join(_)
Join(cols) ==
    IF cols = <<>> THEN <<>>
    ELSE IF Len(cols) = 1 THEN cols
    ELSE <<Head(cols), ", ">> \o Join(Tail(cols))

\* `Colunas não encontradas: ${missingCols.join(', ')}`
ErrorMessage(missingCols) == <<"Colunas não encontradas: ">> \o Join(missingCols)

(***************************************************************************)
(* processData: classification of one row.                                 *)
(***************************************************************************)
\* new Date(reference_date) for a date-only ISO string: midnight UTC, seen
\* here in the local time of the application's users (UTC-3), that is 21:00
\* of the day before.
NewDateFromString(str) ==
    MakeDateH(ParseInt(SubSeq(str, 1, 4)), ParseInt(SubSeq(str, 6, 7)) - 1,
              ParseInt(SubSeq(str, 9, 10)) - 1, 21)

\* refDate, then cutoffDate.setFullYear(cutoffDate.getFullYear() - years);
\* now is the value of new Date() when the row is processed.
CutoffDate(prescription, now) ==
    LET refDate == IF prescription.reference_date # <<>>
                   THEN NewDateFromString(prescription.reference_date)
                   ELSE now
    IN  SubtractYears(refDate, prescription.years)

\* Variant: a due date equal to the cutoff counts as earlier.
IsPrescribed_Inclusive(tempDate, cutoffDate) ==
    tempDate.ok /\ (DateBefore(tempDate.dt, cutoffDate) \/ tempDate.dt = cutoffDate)

\* Variant: without the `tempDate &&` guard, null compares as the time 0.
IsPrescribed_Unguarded(tempDate, cutoffDate) ==
    DateBefore(IF tempDate.ok THEN tempDate.dt ELSE MakeDate(1970, 0, 1), cutoffDate)

\* tempDate && tempDate < cutoffDate
IsPrescribed(tempDate, cutoffDate) ==
    tempDate.ok /\ DateBefore(tempDate.dt, cutoffDate)

\* keywords.map(k => k.toUpperCase()).some(keyword => tempName.includes(keyword))
HasKeyword(keywords, tempName) ==
    \E i \in 1..Len(keywords) : Includes(tempName, ToUpperCase(keywords[i]))

\* Variant: an amount of 0 is not below the threshold.
IsBelowThreshold_Positive(exemption, tempAmount) ==
    /\ exemption.amount_threshold > 0
    /\ tempAmount > 0
    /\ tempAmount < exemption.amount_threshold

\* Variant: an amount equal to the threshold counts as below it.
IsBelowThreshold_Inclusive(exemption, tempAmount) ==
    exemption.amount_threshold > 0 /\ tempAmount <= exemption.amount_threshold

\* amount_threshold > 0 && tempAmount < amount_threshold
IsBelowThreshold(exemption, tempAmount) ==
    exemption.amount_threshold > 0 /\ tempAmount < exemption.amount_threshold

\* tributes.length > 0 && tributes.map(t => t.toUpperCase()).includes(tempTribute)
IsExemptTribute(exemption, tempTribute) ==
    /\ Len(exemption.tributes) > 0
    /\ \E i \in 1..Len(exemption.tributes) :
           ToUpperCase(exemption.tributes[i]) = tempTribute

\* hasBadKeyword || tempName.length < 3
IsBadName(incomplete, tempName) ==
    HasKeyword(incomplete.keywords, tempName) \/ Len(tempName) < 3

\* Variant: the document test without the test that the column is mapped.
IsBadDoc_Unmapped(incomplete, mapping, tempDoc) ==
    incomplete.check_cpf_cnpj /\ tempDoc = <<>>

\* check_cpf_cnpj && mapping.cpf_cnpj && tempDoc === ''
IsBadDoc(incomplete, mapping, tempDoc) ==
    incomplete.check_cpf_cnpj /\ mapping.cpf_cnpj # "" /\ tempDoc = <<>>

Verdict(status, motivo) == [status |-> status, motivo |-> motivo]

\* 1. Prescription check
PrescriptionCheck(v, config, tempDate, now) ==
    IF config.prescription.enabled /\ v.status = Valido
       /\ IsPrescribed(tempDate, CutoffDate(config.prescription, now))
    THEN Verdict(Prescrito,
                 MotivoPrescritoPrefix \o
                 FormatDatePtBR(CutoffDate(config.prescription, now)))
    ELSE v

\* Variant: the immunity check without the test of its enabled flag.
ImmunityCheck_AlwaysOn(v, config, tempName) ==
    IF v.status = Valido /\ HasKeyword(config.immunity.keywords, tempName)
    THEN Verdict(Imune, MotivoImune)
    ELSE v

\* 2. Immunity check
ImmunityCheck(v, config, tempName) ==
    IF config.immunity.enabled /\ v.status = Valido
       /\ HasKeyword(config.immunity.keywords, tempName)
    THEN Verdict(Imune, MotivoImune)
    ELSE v

\* Variant: the amount test sets the status and leaves the reason as it was.
ExemptionCheck_NoReason(v, config, tempAmount, tempTribute) ==
    IF config.exemption.enabled /\ v.status = Valido
    THEN IF IsExemptTribute(config.exemption, tempTribute)
         THEN Verdict(Isento, MotivoTributo)
         ELSE IF IsBelowThreshold(config.exemption, tempAmount)
         THEN Verdict(Isento, v.motivo)
         ELSE v
    ELSE v

\* Variant: the amount test runs after the tribute test and overwrites its
\* reason.
ExemptionCheck_AmountLast(v, config, tempAmount, tempTribute) ==
    IF config.exemption.enabled /\ v.status = Valido
    THEN LET byTribute == IF IsExemptTribute(config.exemption, tempTribute)
                          THEN Verdict(Isento, MotivoTributo)
                          ELSE v
         IN  IF IsBelowThreshold(config.exemption, tempAmount)
             THEN Verdict(Isento,
                          MotivoValorPrefix \o NumToStr(config.exemption.amount_threshold))
             ELSE byTribute
    ELSE v

\* 3. Exemption check: the tribute test runs after the amount test and
\* overwrites its reason.
ExemptionCheck(v, config, tempAmount, tempTribute) ==
    IF config.exemption.enabled /\ v.status = Valido
    THEN LET byAmount == IF IsBelowThreshold(config.exemption, tempAmount)
                         THEN Verdict(Isento,
                                      MotivoValorPrefix \o
                                      NumToStr(config.exemption.amount_threshold))
                         ELSE v
         IN  IF IsExemptTribute(config.exemption, tempTribute)
             THEN Verdict(Isento, MotivoTributo)
             ELSE byAmount
    ELSE v

\* 4. Incomplete check
IncompleteCheck(v, config, tempName, tempDoc) ==
    IF config.incomplete.enabled /\ v.status = Valido
       /\ (\/ IsBadName(config.incomplete, tempName)
           \/ IsBadDoc(config.incomplete, config.mapping, tempDoc))
    THEN Verdict(DadosIncompletos, MotivoIncompleto)
    ELSE v

\* The derived values of a row.
TempDate(row, mapping) == parseDate(Get(row, mapping.due_date))

TempAmount(row, mapping) == parseAmount(Get(row, mapping.amount))

TempName(row, mapping) == ToUpperCase(StringOf(Get(row, mapping.taxpayer_name)))

TempDoc(row, mapping) ==
    IF mapping.cpf_cnpj # "" THEN DigitsOnly(StringOf(Get(row, mapping.cpf_cnpj)))
    ELSE <<>>

TempTribute(row, mapping) ==
    IF mapping.tribute_type # "" THEN ToUpperCase(StringOf(Get(row, mapping.tribute_type)))
    ELSE <<>>

\* Variant: the immunity check placed before the prescription check.
Classify_ImmunityFirst(row, config, now) ==
    LET mapping == config.mapping
        v0 == Verdict(Valido, <<>>)
        v1 == ImmunityCheck(v0, config, TempName(row, mapping))
        v2 == PrescriptionCheck(v1, config, TempDate(row, mapping), now)
        v3 == ExemptionCheck(v2, config, TempAmount(row, mapping),
                             TempTribute(row, mapping))
    IN  IncompleteCheck(v3, config, TempName(row, mapping), TempDoc(row, mapping))

\* The body of data.map's callback up to the progress report: the four
\* checks in their order, each only while the status is still 'Válido'.
Classify(row, config, now) ==
    LET mapping == config.mapping
        v0 == Verdict(Valido, <<>>)
        v1 == PrescriptionCheck(v0, config, TempDate(row, mapping), now)
        v2 == ImmunityCheck(v1, config, TempName(row, mapping))
        v3 == ExemptionCheck(v2, config, TempAmount(row, mapping),
                             TempTribute(row, mapping))
    IN  IncompleteCheck(v3, config, TempName(row, mapping), TempDoc(row, mapping))

StatusCol == "Status_Higienizacao"

MotivoCol == "Motivo_Higienizacao"

\* { ...row, Status_Higienizacao: status, Motivo_Higienizacao: motivo }
Annotate(row, v) ==
    [c \in DOMAIN row \cup {StatusCol, MotivoCol} |->
        IF c = StatusCol THEN Str(v.status)
        ELSE IF c = MotivoCol THEN Str(v.motivo)
        ELSE row[c]]

\* Variant: the rows classified 'Dados Incompletos' are left out of the result.
MapRows_SkipIncomplete(data, config, nows) ==
    SelectSeq([i \in 1..Len(data) |->
                  Annotate(data[i], Classify(data[i], config, nows[i]))],
              LAMBDA row : row[StatusCol].s # DadosIncompletos)

\* data.map(...): row i is classified with the clock reading nows[i].
MapRows(data, config, nows) ==
    [i \in 1..Len(data) |-> Annotate(data[i], Classify(data[i], config, nows[i]))]

(***************************************************************************)
(* processData: progress reports.  A percentage is the fraction num / den. *)
(***************************************************************************)
Report(num, den, status) == [num |-> num, den |-> den, status |-> status]

\* Math.ceil(totalRows / 10)
ProgressStep(totalRows) == (totalRows + 9) \div 10

\* index % Math.ceil(totalRows / 10) === 0, index counting from 0.
ReportsAt(index, totalRows) == index % ProgressStep(totalRows) = 0

\* Variant: the percentage of the rows done, without the 10 of the setup.
RowProgress_NoOffset(index, totalRows) ==
    Report(80 * index, totalRows, "Processando registros...")

\* Math.min(10 + (index / totalRows) * 80, 90)
RowProgress(index, totalRows) ==
    IF 10 * totalRows + 80 * index > 90 * totalRows
    THEN Report(90, 1, "Processando registros...")
    ELSE Report(10 * totalRows + 80 * index, totalRows, "Processando registros...")

\* The reports made from inside data.map, in order: one for each index
\* from `index` on that ReportsAt picks.
RowReports(index, totalRows) ==
    LET indexes == SelectSeq([k \in 1..(totalRows - index) |-> index + k - 1],
                             LAMBDA i : ReportsAt(i, totalRows))
    IN  [j \in 1..Len(indexes) |-> RowProgress(indexes[j], totalRows)]

\* Every onProgress call of a run that passes the validation.
ProgressReports(totalRows) ==
    <<Report(10, 1, "Preparando dados...")>>
    \o RowReports(0, totalRows)
    \o <<Report(95, 1, "Calculando resumo..."), Report(100, 1, "Concluído!")>>

(***************************************************************************)
(* processData: the summary.                                               *)
(***************************************************************************)
\* The keys of statusCounts.
StatusLabels == {Prescrito, Imune, Isento, DadosIncompletos, Valido}

EmptyTally ==
    [counts |-> [st \in StatusLabels |-> 0], totalRemoved |-> 0, totalValid |-> 0]

\* Variant: statusCounts without the key 'Válido'.
TallyRow_NoValidKey(tally, row, mapping) ==
    LET status == StringOf(Get(row, StatusCol))
        amount == parseAmount(Get(row, mapping.amount))
    IN  [counts       |-> IF status \in StatusLabels \ {Valido}
                          THEN [tally.counts EXCEPT ![status] = @ + 1]
                          ELSE tally.counts,
         totalRemoved |-> IF status # Valido THEN tally.totalRemoved + amount
                          ELSE tally.totalRemoved,
         totalValid   |-> IF status # Valido THEN tally.totalValid
                          ELSE tally.totalValid + amount]

\* Variant: a row whose status is no key of statusCounts is skipped, amount
\* and all.
TallyRow_KnownOnly(tally, row, mapping) ==
    LET status == StringOf(Get(row, StatusCol))
        amount == parseAmount(Get(row, mapping.amount))
    IN  IF status \notin StatusLabels THEN tally
        ELSE [counts       |-> [tally.counts EXCEPT ![status] = @ + 1],
              totalRemoved |-> IF status # Valido THEN tally.totalRemoved + amount
                               ELSE tally.totalRemoved,
              totalValid   |-> IF status # Valido THEN tally.totalValid
                               ELSE tally.totalValid + amount]

\* One iteration of `for (const row of processedData)`.
TallyRow(tally, row, mapping) ==
    LET status == StringOf(Get(row, StatusCol))
        amount == parseAmount(Get(row, mapping.amount))
    IN  [counts       |-> IF status \in StatusLabels
                          THEN [tally.counts EXCEPT ![status] = @ + 1]
                          ELSE tally.counts,
         totalRemoved |-> IF status # Valido THEN tally.totalRemoved + amount
                          ELSE tally.totalRemoved,
         totalValid   |-> IF status # Valido THEN tally.totalValid
                          ELSE tally.totalValid + amount]

\* Two tallies put together.
AddTally(a, b) ==
    [counts       |-> [st \in StatusLabels |-> a.counts[st] + b.counts[st]],
     totalRemoved |-> a.totalRemoved + b.totalRemoved,
     totalValid   |-> a.totalValid + b.totalValid]

\* The iterations of the loop for the rows from..to.  The counters only ever
\* add up, so the range is evaluated as two halves put together.
RECURSIVE TallyRows(_, _, _, _)
TallyRows(processedData, mapping, from, to) ==
    IF from > to THEN EmptyTally
    ELSE IF from = to THEN TallyRow(EmptyTally, processedData[from], mapping)
    ELSE AddTally(TallyRows(processedData, mapping, from, (from + to) \div 2),
                  TallyRows(processedData, mapping, ((from + to) \div 2) + 1, to))

Tally(processedData, mapping) ==
    TallyRows(processedData, mapping, 1, Len(processedData))

NoSummary ==
    [total_records |-> 0, processed_records |-> 0, prescribed_count |-> 0,
     immune_count |-> 0, exempt_count |-> 0, incomplete_count |-> 0,
     valid_count |-> 0, total_amount_removed |-> 0, total_amount_valid |-> 0]

Summary(totalRows, tally) ==
    [total_records        |-> totalRows,
     processed_records    |-> totalRows,
     prescribed_count     |-> tally.counts[Prescrito],
     immune_count         |-> tally.counts[Imune],
     exempt_count         |-> tally.counts[Isento],
     incomplete_count     |-> tally.counts[DadosIncompletos],
     valid_count          |-> tally.counts[Valido],
     total_amount_removed |-> tally.totalRemoved,
     total_amount_valid   |-> tally.totalValid]

\* processedData.slice(0, 100)
PreviewLimit == 100

\* Variant: the preview is the whole of the annotated rows.
Preview_Unbounded(processedData) == processedData

Preview(processedData) ==
    SubSeq(processedData, 1,
           IF Len(processedData) < PreviewLimit THEN Len(processedData) ELSE PreviewLimit)

(***************************************************************************)
(* processData as a whole.  ok = FALSE is the thrown Error; progress is    *)
(* the sequence of onProgress calls made before the call ended.            *)
(***************************************************************************)
NoResult ==
    [ok |-> FALSE, error |-> <<>>, summary |-> NoSummary, preview |-> <<>>,
     processedData |-> <<>>, progress |-> <<>>]

Thrown(message) == [NoResult EXCEPT !.error = message]

\* What a run that passed the validation returns, given its annotated rows.
Returned(totalRows, mapping, processedData) ==
    [ok            |-> TRUE,
     error         |-> <<>>,
     summary       |-> Summary(totalRows, Tally(processedData, mapping)),
     preview       |-> Preview(processedData),
     processedData |-> processedData,
     progress      |-> ProgressReports(totalRows)]

processData(data, config, nows) ==
    IF Len(MissingCols(data, config.mapping)) > 0
    THEN Thrown(ErrorMessage(MissingCols(data, config.mapping)))
    ELSE Returned(Len(data), config.mapping, MapRows(data, config, nows))

(***************************************************************************)
(* exportToExcel: the workbook written from the annotated rows.            *)
(***************************************************************************)
\* data.filter(r => r.Status_Higienizacao === a || ...): the rows whose
\* status cell is a string that is one of the labels.
RowsWithStatus(data, labels) ==
    SelectSeq(data, LAMBDA r : /\ Get(r, StatusCol).t = "str"
                               /\ Get(r, StatusCol).s \in labels)

\* Variant: the sheet 'Imunes e Isentos' holds the 'Imune' rows only.
immuneData_OnlyImune(data) == RowsWithStatus(data, {Imune})

immuneData(data) == RowsWithStatus(data, {Imune, Isento})

\* Intl.NumberFormat('pt-BR', { style: 'currency', currency: 'BRL' }) on a
\* number of hundredths: the digits before the comma in groups of three; the
\* no-break space after the symbol is written " ".
formatCurrency(val) ==
    LET a == IF val < 0 THEN 0 - val ELSE val
        RECURSIVE Grouped(_)
        Grouped(n) ==
            IF n < 1000 THEN NatToStr(n)
            ELSE Grouped(n \div 1000) \o <<".">> \o SubSeq(NatToStr(1000 + (n % 1000)), 2, 4)
    IN  (IF val < 0 THEN <<"-">> ELSE <<>>) \o <<"R", "$", " ">> \o
        Grouped(a \div 100) \o <<",">> \o Pad2(a % 100)

\* Variant: the year of the due date is looked at before the tax_year column.
YearOf_DueDateFirst(row, mapping) ==
    LET date == parseDate(Get(row, mapping.due_date))
    IN  IF mapping.due_date # "" /\ date.ok THEN NatToStr(date.dt.y)
        ELSE IF mapping.tax_year # "" /\ ~Falsy(Get(row, mapping.tax_year))
        THEN StringOf(Get(row, mapping.tax_year))
        ELSE <<"N", "/", "A">>

\* The key of yearStats a row is counted under.
YearOf(row, mapping) ==
    LET date == parseDate(Get(row, mapping.due_date))
    IN  IF mapping.tax_year # "" /\ ~Falsy(Get(row, mapping.tax_year))
        THEN StringOf(Get(row, mapping.tax_year))
        ELSE IF mapping.due_date # "" /\ date.ok THEN NatToStr(date.dt.y)
        ELSE <<"N", "/", "A">>

\* data.reduce((acc, row) => acc + parseAmount(row[mapping.amount]), 0) over
\* the rows from..to that are in keep, as two halves put together.
RECURSIVE AddAmounts(_, _, _, _, _)
AddAmounts(data, mapping, keep, from, to) ==
    IF from > to THEN 0
    ELSE IF from = to
    THEN (IF from \in keep THEN parseAmount(Get(data[from], mapping.amount)) ELSE 0)
    ELSE AddAmounts(data, mapping, keep, from, (from + to) \div 2)
         + AddAmounts(data, mapping, keep, ((from + to) \div 2) + 1, to)

\* yearStats after the forEach: for every year some row is counted under,
\* the amounts of its rows, status by status.
yearStats(data, mapping) ==
    LET rowsOf(year, labels) ==
            {i \in 1..Len(data) : /\ YearOf(data[i], mapping) = year
                                  /\ Get(data[i], StatusCol).t = "str"
                                  /\ Get(data[i], StatusCol).s \in labels}
        sum(year, labels) == AddAmounts(data, mapping, rowsOf(year, labels), 1, Len(data))
    IN  [year \in {YearOf(data[i], mapping) : i \in 1..Len(data)} |->
            [valid      |-> sum(year, {Valido}),
             immune     |-> sum(year, {Imune, Isento}),
             incomplete |-> sum(year, {DadosIncompletos}),
             prescribed |-> sum(year, {Prescrito})]]

\* Object.keys(yearStats).sort(): the keys in the order of the UTF-16 code
\* units of their characters.
sortedYears(stats) ==
    LET codeUnits ==
            <<" ", "$", ",", "-", ".", "/">> \o DigitChars \o <<":">> \o
            SubSeq(UpperChars, 1, 26) \o <<"_">> \o SubSeq(LowerChars, 1, 26) \o
            SubSeq(UpperChars, 27, Len(UpperChars)) \o SubSeq(LowerChars, 27, Len(LowerChars))
        codeOf(c) == CHOOSE k \in 1..Len(codeUnits) : codeUnits[k] = c
        RECURSIVE Before(_, _)
        Before(a, b) ==
            IF b = <<>> THEN FALSE
            ELSE IF a = <<>> THEN TRUE
            ELSE IF Head(a) = Head(b) THEN Before(Tail(a), Tail(b))
            ELSE codeOf(Head(a)) < codeOf(Head(b))
        years == DOMAIN stats
    IN  [k \in 1..Cardinality(years) |->
            CHOOSE y \in years : Cardinality({x \in years : Before(x, y)}) = k - 1]

tableData(stats) ==
    LET years == sortedYears(stats)
    IN  [k \in 1..Len(years) |->
            [Ano          |-> years[k],
             DividaAtiva  |-> formatCurrency(stats[years[k]].valid),
             Imunes       |-> formatCurrency(stats[years[k]].immune),
             Ignorados    |-> formatCurrency(stats[years[k]].incomplete),
             Prescritos   |-> formatCurrency(stats[years[k]].prescribed)]]

\* No workbook was written.
NoWorkbook == [written |-> FALSE]

\* The workbook exportToExcel writes: its six sheets by name, a sheet of
\* rows as the sequence of its rows, the sheet 'Resumo' as its total line
\* and its table.
exportToExcel(data, mapping) ==
    [written                     |-> TRUE,
     DividaAtiva                 |-> data,
     ImunesEIsentos              |-> immuneData(data),
     Prescritos                  |-> RowsWithStatus(data, {Prescrito}),
     Ignorados                   |-> RowsWithStatus(data, {DadosIncompletos}),
     DividaAtivaAposHigienizacao |-> RowsWithStatus(data, {Valido}),
     Resumo                      |->
         [Valor  |-> formatCurrency(AddAmounts(data, mapping, 1..Len(data), 1, Len(data))),
          tabela |-> tableData(yearStats(data, mapping))]]

(***************************************************************************)
(* Inputs of the model: cells, rows, mappings and rule configurations.     *)
(***************************************************************************)
\* an old due date
OldDateStr == <<"0", "1", "/", "0", "1", "/", "2", "0", "1", "0">>

\* a due date five years before the clock readings
EdgeDateStr == <<"1", "0", "/", "0", "3", "/", "2", "0", "1", "9">>

\* a due date after every cutoff
FutureDateStr == <<"2", "0", "3", "0", "-", "0", "1", "-", "0", "1">>

\* not a date
BadDateStr == <<"s", "/", "d">>

\* contains an immunity keyword
ImmuneName == <<"T", "e", "m", "p", "l", "o", " ", "S", "o", "l">>

\* a usable name
PlainName == <<"A", "n", "a">>

\* contains a bad-name keyword
IgnoredName == <<"I", "g", "n", "o", "r", "a", "d", "o">>

\* three characters, one of them a letter
PaddedName == <<" ", "A", " ">>

\* below the threshold
SmallAmountStr == <<"R", "$", " ", "5", ",", "5", "0">>

\* not a number
BadAmountStr == <<"a", "b", "c">>

\* a document with digits
DocStr == <<"1", "-", "2">>

\* a document without digits
NoDigitsDocStr == <<"-">>

\* an exempt tribute
TaxaStr == <<"T", "a", "x", "a">>

\* a tribute that is not exempt
IssStr == <<"i", "s", "s">>

\* reference_date of the rules form
ReferenceDateStr == <<"2", "0", "2", "4", "-", "0", "3", "-", "1", "0">>

\* immunity keyword
KwTemplo == <<"t", "e", "m", "p", "l", "o">>

\* bad-name keyword
KwIgnorado == <<"i", "g", "n", "o", "r", "a", "d", "o">>

\* exempt tribute
KwTaxa == <<"t", "a", "x", "a">>

\* an entry of the list of exempt tributes that is the empty string
BlankTribute == <<>>

\* Amounts, in hundredths.
Amount(units) == units * 100

\* A row of a workbook that was exported by this program and loaded again:
\* it already has the two annotation columns.  Nothing is wrong with it
\* except that it has no document.
RowExported ==
    [ID |-> Num(Amount(1)), NOME |-> Str(PlainName), VENC |-> Str(FutureDateStr),
     VALOR |-> Num(Amount(20)), Status_Higienizacao |-> Num(Amount(30)),
     Motivo_Higienizacao |-> Str(PlainName)]

\* A full row: old due date, immune name, exempt tribute, and a tax year
\* that is the year before the one of the due date.
RowOldImmune ==
    [ID |-> Num(Amount(2)), NOME |-> Str(ImmuneName), VENC |-> Str(OldDateStr),
     VALOR |-> Num(Amount(20)), DOC |-> Str(DocStr), TRIB |-> Str(TaxaStr),
     ANO |-> Num(Amount(2009))]

\* Due date on the edge of the cutoff, amount below the threshold, exempt
\* tribute, the tax year as a text.
RowEdgeSmall ==
    [ID |-> Num(Amount(3)), NOME |-> Str(PlainName), VENC |-> Str(EdgeDateStr),
     VALOR |-> Str(SmallAmountStr), DOC |-> Str(DocStr), TRIB |-> Str(TaxaStr),
     ANO |-> Str(<<"2", "0", "1", "9">>)]

\* No parseable due date, bad name, amount equal to the threshold, no digit
\* in the document.
RowIgnored ==
    [ID |-> Num(Amount(4)), NOME |-> Str(IgnoredName), VENC |-> Str(BadDateStr),
     VALOR |-> Num(Amount(10)), DOC |-> Str(NoDigitsDocStr), TRIB |-> Str(IssStr)]

\* A bare year as due date and a padded short name; the reader leaves out
\* the keys of empty cells (no VALOR, no DOC, no TRIB).
RowSparse ==
    [ID |-> Num(Amount(5)), NOME |-> Str(PaddedName), VENC |-> Num(Amount(2010))]

\* An amount that is not a number, a due date that is not a date.
RowGarbled ==
    [ID |-> Num(Amount(6)), NOME |-> Str(PlainName), VENC |-> Str(BadDateStr),
     VALOR |-> Str(BadAmountStr), DOC |-> Str(DocStr), TRIB |-> Str(IssStr)]

\* A date cell with a time of day: the instant that is five years before
\* reference_date.  Nothing else is wrong with the row.
RowAtCutoff ==
    [ID |-> Num(Amount(7)), NOME |-> Str(PlainName), VENC |-> DateCell(MakeDateH(2019, 2, 9, 21)),
     VALOR |-> Num(Amount(20)), DOC |-> Str(DocStr), TRIB |-> Str(IssStr)]

\* The rows a sheet can hold, in the order of the sheet.
SheetRows ==
    <<RowExported, RowOldImmune, RowEdgeSmall, RowIgnored, RowSparse, RowGarbled, RowAtCutoff>>

\* A sheet: some of these rows in the order of the sheet, MaxRows at most.
RowsAt(picked) ==
    LET RECURSIVE Collect(_)
        Collect(k) ==
            IF k = 0 THEN <<>>
            ELSE Collect(k - 1) \o (IF k \in picked THEN <<SheetRows[k]>> ELSE <<>>)
    IN  Collect(Len(SheetRows))

DataSets ==
    {RowsAt(picked) : picked \in {P \in SUBSET (1..Len(SheetRows)) : Cardinality(P) <= MaxRows}}

\* Mappings.  An optional field that is not mapped is "".
Mapping(debt_id, taxpayer_name, due_date, amount, cpf_cnpj, tribute_type) ==
    [debt_id |-> debt_id, taxpayer_name |-> taxpayer_name, due_date |-> due_date,
     amount |-> amount, cpf_cnpj |-> cpf_cnpj, tribute_type |-> tribute_type,
     tax_year |-> ""]

\* DEFAULT_MAPPING of the App.
DEFAULT_MAPPING == Mapping("", "", "", "", "", "")

FullMapping == Mapping("ID", "NOME", "VENC", "VALOR", "DOC", "TRIB")

RequiredOnlyMapping == Mapping("ID", "NOME", "VENC", "VALOR", "", "")

\* Two required fields name columns no row has.
WrongMapping == Mapping("ZZ", "NOME", "AA", "VALOR", "", "")

\* Name and amount are read from the annotation columns of an exported file.
ExportedMapping == Mapping("ID", MotivoCol, "VENC", StatusCol, "", "")

\* The last two: the full mapping with the column of the tax year, and the
\* same with nothing to take a due date from.
OtherMappings ==
    {RequiredOnlyMapping, DEFAULT_MAPPING, WrongMapping, ExportedMapping,
     [FullMapping EXCEPT !.tax_year = "ANO"],
     [FullMapping EXCEPT !.tax_year = "ANO", !.due_date = ""]}

Prescriptions ==
    {[enabled |-> FALSE, years |-> 5, reference_date |-> <<>>],
     [enabled |-> TRUE, years |-> 5, reference_date |-> <<>>],
     [enabled |-> TRUE, years |-> 5, reference_date |-> ReferenceDateStr],
     [enabled |-> TRUE, years |-> 20, reference_date |-> ReferenceDateStr]}

Immunities == {[enabled |-> e, keywords |-> <<KwTemplo>>] : e \in BOOLEAN}

Exemptions ==
    {[enabled |-> FALSE, amount_threshold |-> Amount(10), tributes |-> <<KwTaxa>>]}
    \cup {[enabled |-> TRUE, amount_threshold |-> a, tributes |-> t] :
             a \in {0, Amount(10)}, t \in {<<>>, <<KwTaxa>>}}
    \cup {[enabled |-> TRUE, amount_threshold |-> 0, tributes |-> <<BlankTribute>>]}

Incompletes ==
    {[enabled |-> FALSE, keywords |-> <<KwIgnorado>>, check_cpf_cnpj |-> TRUE]}
    \cup {[enabled |-> TRUE, keywords |-> <<KwIgnorado>>, check_cpf_cnpj |-> c] :
             c \in BOOLEAN}

Config(mapping, prescription, immunity, exemption, incomplete) ==
    [mapping |-> mapping, prescription |-> prescription, immunity |-> immunity,
     exemption |-> exemption, incomplete |-> incomplete]

Enabled(rules) == {r \in rules : r.enabled}

\* The rule settings the on/off combinations are taken with.
UsualRules(rules) ==
    {r \in rules :
        \/ ~r.enabled
        \/ r \in {[enabled |-> TRUE, years |-> 5, reference_date |-> ReferenceDateStr],
                  [enabled |-> TRUE, keywords |-> <<KwTemplo>>],
                  [enabled |-> TRUE, amount_threshold |-> Amount(10), tributes |-> <<KwTaxa>>],
                  [enabled |-> TRUE, keywords |-> <<KwIgnorado>>, check_cpf_cnpj |-> TRUE]}}

\* Under the full mapping: every setting of the four rules when all are
\* enabled, and every on/off combination of the rules with their usual
\* settings.  Under the other mappings: all rules enabled, with and without
\* reference_date and check_cpf_cnpj.
Configs ==
    {Config(FullMapping, p, i, e, c) :
        p \in Enabled(Prescriptions), i \in Enabled(Immunities),
        e \in Enabled(Exemptions), c \in Enabled(Incompletes)}
    \cup
    {Config(FullMapping, p, i, e, c) :
        p \in UsualRules(Prescriptions), i \in UsualRules(Immunities),
        e \in UsualRules(Exemptions), c \in UsualRules(Incompletes)}
    \cup
    {Config(m, p, i, e, c) :
        m \in OtherMappings,
        p \in {q \in Enabled(Prescriptions) : q.years = 5},
        i \in Enabled(Immunities),
        e \in Enabled(Exemptions) \cap UsualRules(Exemptions),
        c \in Enabled(Incompletes)}

\* A sheet of n rows, longer than the preview: the rows of SheetRows over
\* and over, numbered by their position.
LongSheet(n) ==
    [i \in 1..n |-> [SheetRows[((i - 1) % Len(SheetRows)) + 1] EXCEPT !.ID = Num(Amount(i))]]

\* As many rows as the preview holds, and one more.
LongSheets == {LongSheet(PreviewLimit), LongSheet(PreviewLimit + 1)}

\* The long sheets are processed under the full mapping with the four rules
\* enabled in their usual settings.
LongConfigs ==
    {Config(FullMapping, p, i, e, c) :
        p \in Enabled(UsualRules(Prescriptions)), i \in Enabled(UsualRules(Immunities)),
        e \in Enabled(UsualRules(Exemptions)), c \in Enabled(UsualRules(Incompletes))}

\* The arguments of the first call: a sheet and a configuration.
Inputs == (DataSets \X Configs) \cup (LongSheets \X LongConfigs)

\* The instants new Date() can return during the runs of the model: shortly
\* before and shortly after local midnight of 10 March 2024.
ClockTimes == <<MakeDateH(2024, 2, 9, 23), MakeDateH(2024, 2, 10, 1)>>

(***************************************************************************)
(* The state: one session of calls of processData on a loaded sheet.       *)
(*   data, config : the arguments of the next (or last) call               *)
(*   clock        : index in ClockTimes of the current instant             *)
(*   phase        : "ready" before the first call, then "done" (the last   *)
(*                  call returned) or "failed" (it threw)                  *)
(*   result       : what the last call produced                            *)
(*   run          : "none" | "first" | "again" | "permuted", the kind of   *)
(*                  the last call                                          *)
(*   first        : arguments and result of the first call                 *)
(*   perm         : the permutation of the rows used by a "permuted" call  *)
(*   nows         : the value new Date() had, row by row, in the last call *)
(*   value, parsed: the argument and the result of a call of parseDate on  *)
(*                  a single cell (phase "parsing", then "parsed")         *)
(*   parsedAmount : the result of a call of parseAmount on the cell value  *)
(*   workbook     : the workbook exported from the result of the last call *)
(*   file, columns, mapping, isLoading, error, appResult (the state        *)
(*   `result`), progress, progressStatus: the state of the App component   *)
(*   rawDataRef, processedDataRef: the two refs of the App, their .current *)
(*   pending      : the handlers of the App that wait at an await, oldest  *)
(*                  first, each with the values its closure holds          *)
(*   calls        : the number of calls of processData the App made,       *)
(*                  modulo 2                                               *)
(***************************************************************************)
VARIABLES data, config, clock, phase, result, run, first, perm, nows, value, parsed,
          parsedAmount, workbook, file, columns, mapping, isLoading, error, appResult,
          progress, progressStatus, rawDataRef, processedDataRef, pending, calls

vars == <<data, config, clock, phase, result, run, first, perm, nows, value, parsed,
          parsedAmount, workbook, file, columns, mapping, isLoading, error, appResult,
          progress, progressStatus, rawDataRef, processedDataRef, pending, calls>>

\* The variables of the App component.
appVars ==
    <<file, columns, mapping, isLoading, error, appResult, progress, progressStatus,
      rawDataRef, processedDataRef, pending, calls>>

\* useState<File | null>(null): no file.
NoFile == ""

\* useState<string | null>(null): no error.  A message is a sequence of
\* pieces of text, as the message of processData is.
NoError == <<>>

\* useState<ProcessResult | null>(null): no result.
NoAppResult == [shown |-> FALSE, summary |-> NoSummary, preview |-> <<>>]

\* The App as it is constructed, and as the specifications of processData
\* and of the parsers leave it.
AppConstructed ==
    /\ file = NoFile
    /\ columns = <<>>
    /\ mapping = DEFAULT_MAPPING
    /\ isLoading = FALSE
    /\ error = NoError
    /\ appResult = NoAppResult
    /\ progress = [num |-> 0, den |-> 1]
    /\ progressStatus = ""
    /\ rawDataRef = <<>>
    /\ processedDataRef = <<>>
    /\ pending = <<>>
    /\ calls = 0

\* Does a call read the clock (new Date()) while it classifies a row?
ReadsClock(cfg) == cfg.prescription.enabled /\ cfg.prescription.reference_date = <<>>

\* The clock readings of the n rows of a call that starts at instant `from`:
\* time does not go back.
ClockReadings(n, from, cfg) ==
    IF ReadsClock(cfg)
    THEN {r \in [1..n -> from..Len(ClockTimes)] :
              \A i \in 1..n, j \in 1..n : i < j => r[i] <= r[j]}
    ELSE {[i \in 1..n |-> from]}

Instants(readings) == [i \in 1..Len(readings) |-> ClockTimes[readings[i]]]

RowOrders(n) ==
    {p \in [1..n -> 1..n] : \A i \in 1..n, j \in 1..n : p[i] = p[j] => i = j}

Permuted(rows, p) == [i \in 1..Len(rows) |-> rows[p[i]]]

Init ==
    /\ \E input \in Inputs :
           /\ data = input[1]
           /\ config = input[2]
    /\ clock = 1
    /\ phase = "ready"
    /\ result = NoResult
    /\ run = "none"
    /\ first = [data |-> <<>>, result |-> NoResult]
    /\ perm = <<>>
    /\ nows = <<>>
    /\ value = Undef
    /\ parsed = None
    /\ parsedAmount = 0
    /\ workbook = NoWorkbook
    /\ AppConstructed

\* One call processData(rows, config, onProgress).
Call(rows, kind, p) ==
    \E readings \in ClockReadings(Len(rows), clock, config) :
        /\ result' = processData(rows, config, Instants(readings))
        /\ data' = rows
        /\ phase' = IF result'.ok THEN "done" ELSE "failed"
        /\ clock' = IF readings = <<>> THEN clock ELSE readings[Len(readings)]
        /\ run' = kind
        /\ first' = IF kind = "first" THEN [data |-> rows, result |-> result'] ELSE first
        /\ perm' = p
        /\ nows' = Instants(readings)
        /\ workbook' = NoWorkbook
        /\ UNCHANGED <<config, value, parsed, parsedAmount, appVars>>

\* The first call, on the rows read from the sheet.
Process ==
    /\ phase = "ready"
    /\ Call(data, "first", <<>>)

\* A second call on the annotated rows the first call returned.
ProcessAgain ==
    /\ phase = "done"
    /\ run = "first"
    /\ Call(result.processedData, "again", <<>>)

\* A second call on the same rows in another order, for the sheets of
\* MaxRows rows at most.
ProcessPermuted ==
    /\ phase = "done"
    /\ run = "first"
    /\ Len(first.data) <= MaxRows
    /\ \E p \in RowOrders(Len(first.data)) :
           /\ \E i \in 1..Len(first.data) : p[i] # i
           /\ Call(Permuted(first.data, p), "permuted", p)

\* handleExport: the annotated rows of the last call are written to a
\* workbook, once, when there are any.
Export ==
    /\ phase = "done"
    /\ Len(result.processedData) # 0
    /\ ~workbook.written
    /\ workbook' = exportToExcel(result.processedData, config.mapping)
    /\ UNCHANGED <<data, config, clock, phase, result, run, first, perm, nows, value,
                   parsed, parsedAmount,
                   appVars>>

Next == Process \/ ProcessAgain \/ ProcessPermuted \/ Export

Spec == Init /\ [][Next]_vars

(***************************************************************************)
(* parseDate on its own: one cell value, one call.                         *)
(***************************************************************************)
\* Two-digit groups and four-digit groups of the date strings.
DayGroups == {<<"0", "0">>, <<"0", "1">>, <<"2", "9">>, <<"3", "1">>}

MonthGroups == {<<"0", "0">>, <<"0", "2">>, <<"1", "2">>, <<"1", "3">>}

YearGroups ==
    {<<"0", "0", "5", "0">>, <<"1", "8", "9", "9">>, <<"1", "9", "0", "0">>,
     <<"2", "0", "2", "3">>, <<"2", "0", "2", "4">>, <<"2", "1", "0", "0">>,
     <<"2", "1", "0", "1">>}

\* Strings of the three shapes parseDate knows, strings of bare years, some
\* of them between blanks, and strings of other shapes.
DateStrings ==
    {d \o <<sep>> \o m \o <<sep>> \o y :
        d \in DayGroups, m \in MonthGroups, y \in YearGroups, sep \in {"/", "-"}}
    \cup {y \o <<"-">> \o m \o <<"-">> \o d :
        d \in DayGroups, m \in MonthGroups, y \in YearGroups}
    \cup YearGroups
    \cup {<<" ">> \o y \o <<" ", " ">> : y \in YearGroups}
    \cup {<<" ">> \o d \o <<"/", "0", "2", "/">> \o y \o <<" ">> :
        d \in DayGroups, y \in YearGroups}
    \cup {d \o <<"/", "1", "2", "-">> \o y : d \in DayGroups, y \in YearGroups}
    \cup {y \o <<"/", "1", "2", "/">> \o d : d \in DayGroups, y \in YearGroups}
    \cup {<<"1", "/", "2", "/", "2", "0", "2", "3">>,
          <<"0", "1", ".", "0", "2", ".", "2", "0", "2", "3">>,
          <<"0", "1", "/", "0", "2", "/", "2", "3">>,
          <<"2", "0", "2", "3", "a">>, <<"2", "0", "2">>, <<" ">>, <<>>,
          BadDateStr, PlainName}

\* The cell values parseDate is called with: strings, numbers in hundredths
\* (years, serial dates, zero, a negative number), a Date, no value.
DateValues ==
    {Str(s) : s \in DateStrings}
    \cup {Num(Amount(n)) : n \in {0, 1, 60, 500, 1899, 1900, 2023, 2100, 2101}}
    \cup {Num(0 - Amount(1)), Num(Amount(2023) + 50)}
    \cup {DateCell(MakeDate(2023, 1, 28)), Undef}

InitParseDate ==
    /\ value \in DateValues
    /\ parsed = None
    /\ phase = "parsing"
    /\ data = <<>>
    /\ config = Config(DEFAULT_MAPPING, CHOOSE p \in Prescriptions : ~p.enabled,
                       CHOOSE i \in Immunities : ~i.enabled,
                       CHOOSE e \in Exemptions : ~e.enabled,
                       CHOOSE c \in Incompletes : ~c.enabled)
    /\ clock = 1
    /\ result = NoResult
    /\ run = "none"
    /\ first = [data |-> <<>>, result |-> NoResult]
    /\ perm = <<>>
    /\ nows = <<>>
    /\ parsedAmount = 0
    /\ workbook = NoWorkbook
    /\ AppConstructed

\* The call parseDate(value).
ParseDate ==
    /\ phase = "parsing"
    /\ parsed' = parseDate(value)
    /\ phase' = "parsed"
    /\ UNCHANGED <<data, config, clock, result, run, first, perm, nows, value, parsedAmount, workbook,
                   appVars>>

SpecParseDate == InitParseDate /\ [][ParseDate]_vars

(***************************************************************************)
(* parseAmount on its own: one cell value, one call.                       *)
(***************************************************************************)
\* The cell values parseAmount is called with: strings (a numeral in the
\* Brazilian or in the plain notation, with more than one separator of a
\* kind, or a text that is no numeral, after a sign or a currency marker and
\* before blanks), numbers in hundredths, a Date, no value.
AmountValues ==
    LET prefixes == {<<>>, <<" ">>, <<"R", "$", " ">>, <<"R", "$">>, <<"R", "$", " ", " ">>,
                     <<"-">>, <<"R", "$", " ", "-">>}
        numerals == {<<"1", ".", "2", "3", "4", ",", "5", "6">>,
                     <<"1", "2", "3", "4", ",", "5", "6">>,
                     <<"1", "2", "3", "4", ".", "5", "6">>, <<"1", "2", "3", "4">>, <<"0">>,
                     <<"0", ",", "5">>, <<"1", "2", ",", "5", "0">>,
                     <<"1", "0", ".", "0", "0", "0", ",", "0", "0">>,
                     <<"1", ".", "2", "3", "4", ".", "5", "6", "7", ",", "8", "9">>,
                     <<"1", ".", "2", "3", "4", ".", "5", "6", "7">>,
                     <<"1", ",", "2", "3", "4", ",", "5", "6", "7">>,
                     <<"1", ",", "2", "3", "4", ".", "5", "6">>, <<",", "5">>, <<".", "5">>,
                     <<"1", "2", "a", "b", "c">>, <<"a", "b", "c">>, <<"a", "1", "2">>,
                     <<"0", "1", "/", "0", "2", "/", "2", "0", "2", "3">>, <<>>}
        suffixes == {<<>>, <<" ">>, <<" ", "R", "$">>}
    IN  {Str(p \o n \o x) : p \in prefixes, n \in numerals, x \in suffixes}
        \cup {Str(SmallAmountStr), Str(BadAmountStr)}
        \cup {Num(n) : n \in {0, 1, 50, Amount(1), 123456, 0 - 123456}}
        \cup {DateCell(MakeDate(2023, 1, 28)), Undef}

InitParseAmount ==
    /\ value \in AmountValues
    /\ parsedAmount = 0
    /\ workbook = NoWorkbook
    /\ AppConstructed
    /\ parsed = None
    /\ phase = "parsing"
    /\ data = <<>>
    /\ config = Config(DEFAULT_MAPPING, CHOOSE p \in Prescriptions : ~p.enabled,
                       CHOOSE i \in Immunities : ~i.enabled,
                       CHOOSE e \in Exemptions : ~e.enabled,
                       CHOOSE c \in Incompletes : ~c.enabled)
    /\ clock = 1
    /\ result = NoResult
    /\ run = "none"
    /\ first = [data |-> <<>>, result |-> NoResult]
    /\ perm = <<>>
    /\ nows = <<>>

\* The call parseAmount(value).
ParseAmount ==
    /\ phase = "parsing"
    /\ parsedAmount' = parseAmount(value)
    /\ phase' = "parsed"
    /\ UNCHANGED <<data, config, clock, result, run, first, perm, nows, value, parsed, workbook,
                   appVars>>

SpecParseAmount == InitParseAmount /\ [][ParseAmount]_vars

(***************************************************************************)
(* The aggregation pass on its own: annotated rows, one pass.              *)
(***************************************************************************)
\* Annotated rows, MaxRows at most, whose status cells are the five labels
\* and values that are no key of statusCounts (another spelling, a property
\* every object inherits, the empty string, a number, no cell).
AnnotatedSheets ==
    LET cells == {Str(st) : st \in StatusLabels}
                 \cup {Str(<<"v", "á", "l", "i", "d", "o">>),
                       Str(<<"c", "o", "n", "s", "t", "r", "u", "c", "t", "o", "r">>),
                       Str(<<>>), Num(Amount(30)), Undef}
        rows  == {[ID |-> Num(Amount(1)), VALOR |-> a, Status_Higienizacao |-> st,
                   Motivo_Higienizacao |-> Str(<<>>)] :
                      a \in {Num(Amount(20)), Str(SmallAmountStr), Str(BadAmountStr)},
                      st \in cells}
    IN  UNION {[1..n -> rows] : n \in 0..MaxRows}

InitAggregate ==
    /\ data \in AnnotatedSheets
    /\ config = Config(FullMapping, CHOOSE p \in Prescriptions : ~p.enabled,
                       CHOOSE i \in Immunities : ~i.enabled,
                       CHOOSE e \in Exemptions : ~e.enabled,
                       CHOOSE c \in Incompletes : ~c.enabled)
    /\ phase = "annotated"
    /\ clock = 1
    /\ result = NoResult
    /\ run = "none"
    /\ first = [data |-> <<>>, result |-> NoResult]
    /\ perm = <<>>
    /\ nows = <<>>
    /\ value = Undef
    /\ parsed = None
    /\ parsedAmount = 0
    /\ workbook = NoWorkbook
    /\ AppConstructed

\* The second half of processData, from the report of 95 % on, on the
\* annotated rows.
Aggregate ==
    /\ phase = "annotated"
    /\ result' = Returned(Len(data), config.mapping, data)
    /\ phase' = "aggregated"
    /\ UNCHANGED <<data, config, clock, run, first, perm, nows, value, parsed,
                   parsedAmount, workbook,
                   appVars>>

SpecAggregate == InitAggregate /\ [][Aggregate]_vars

(***************************************************************************)
(* The App that processes in the browser: a user who picks files, maps     *)
(* columns, starts the processing and clears, and the handlers that wait   *)
(* for a file to be read or for a timer.                                   *)
(***************************************************************************)
\* The handlers that may wait at an await at the same time.
MaxPending == 2

\* The files of the user: two workbooks with different columns, a workbook
\* whose sheet is empty and a file that is no workbook.
Files == {"a.xlsx", "b.xlsx", "vazio.xlsx", "ruim.xlsx"}

\* The rows of the first sheet of a workbook.
SheetOf(f) ==
    CASE f = "a.xlsx" -> <<RowEdgeSmall, RowIgnored>>
      [] f = "b.xlsx" -> <<RowExported>>
      [] OTHER -> <<>>

\* readExcelFile: the promise is rejected for a file XLSX cannot read, and
\* resolved with the rows and with the keys of the first row, in the order
\* of the sheet.
readExcelFile(f) ==
    LET jsonData == SheetOf(f)
        keys     == <<"ID", "NOME", "VENC", "VALOR", "DOC", "TRIB", "ANO", StatusCol, MotivoCol>>
    IN  IF f = "ruim.xlsx" THEN [ok |-> FALSE, columns |-> <<>>, data |-> <<>>]
        ELSE [ok      |-> TRUE,
              columns |-> IF Len(jsonData) > 0
                          THEN SelectSeq(keys, LAMBDA c : c \in DOMAIN jsonData[1])
                          ELSE <<>>,
              data    |-> jsonData]

\* The config handleProcess builds: the mapping and the four rules, which
\* keep their values DEFAULT_PRESCRIPTION, DEFAULT_IMMUNITY, DEFAULT_EXEMPTION
\* and DEFAULT_INCOMPLETE here.
AppConfig(m) ==
    Config(m,
           [enabled |-> TRUE, years |-> 5, reference_date |-> <<>>],
           [enabled |-> TRUE,
            keywords |-> <<<<"U", "N", "I", "Ã", "O">>,
                           <<"E", "S", "T", "A", "D", "O">>,
                           <<"M", "U", "N", "I", "C", "I", "P", "I", "O">>,
                           <<"T", "E", "M", "P", "L", "O">>,
                           <<"P", "A", "R", "T", "I", "D", "O">>,
                           <<"S", "I", "N", "D", "I", "C", "A", "T", "O">>,
                           <<"A", "U", "T", "A", "R", "Q", "U", "I", "A">>,
                           <<"F", "U", "N", "D", "A", "Ç", "Ã", "O">>>>],
           [enabled |-> TRUE, amount_threshold |-> 0, tributes |-> <<>>],
           [enabled |-> TRUE,
            keywords |-> <<<<"I", "G", "N", "O", "R", "A", "D", "O">>,
                           <<"N", "Ã", "O", " ", "I", "N", "F", "O", "R", "M", "A", "D", "O">>,
                           <<"D", "E", "S", "C", "O", "N", "H", "E", "C", "I", "D", "O">>,
                           <<"S", "E", "M", " ", "N", "O", "M", "E">>>>,
            check_cpf_cnpj |-> TRUE])

\* isMappingValid, and the test of handleProcess.
IsMappingValid(m) ==
    m.debt_id # "" /\ m.taxpayer_name # "" /\ m.due_date # "" /\ m.amount # ""

\* A handler that waits: which one, where, and the file and the mapping of
\* its closure (handleFileSelect closes over no mapping).
Waiting(handler, at, f, m) == [handler |-> handler, at |-> at, file |-> f, mapping |-> m]

Without(tasks, k) == SubSeq(tasks, 1, k - 1) \o SubSeq(tasks, k + 1, Len(tasks))

\* The variables of the calls of processData that the App does not touch.
idleVars == <<phase, run, first, perm, nows, value, parsed, parsedAmount, workbook>>

InitApp ==
    /\ AppConstructed
    /\ data = <<>>
    /\ config = AppConfig(DEFAULT_MAPPING)
    /\ clock = 1
    /\ phase = "app"
    /\ result = NoResult
    /\ run = "none"
    /\ first = [data |-> <<>>, result |-> NoResult]
    /\ perm = <<>>
    /\ nows = <<>>
    /\ value = Undef
    /\ parsed = None
    /\ parsedAmount = 0
    /\ workbook = NoWorkbook

\* handleFileSelect up to its await.  FileUpload offers to pick a file when
\* none is selected.
HandleFileSelect ==
    /\ file = NoFile
    /\ Len(pending) < MaxPending
    /\ \E selectedFile \in Files :
           /\ file' = selectedFile
           /\ pending' = Append(pending, Waiting("handleFileSelect", "readExcelFile",
                                                 selectedFile, DEFAULT_MAPPING))
    /\ error' = NoError
    /\ appResult' = NoAppResult
    /\ columns' = <<>>
    /\ mapping' = DEFAULT_MAPPING
    /\ progress' = [num |-> 0, den |-> 1]
    /\ progressStatus' = "Lendo arquivo..."
    /\ isLoading' = TRUE
    /\ UNCHANGED <<rawDataRef, processedDataRef, calls, data, config, clock, result, idleVars>>

\* handleFileSelect from its await on: the file was read, or not.
FileRead ==
    \E k \in 1..Len(pending) :
        /\ pending[k].handler = "handleFileSelect"
        /\ LET read == readExcelFile(pending[k].file)
           IN  IF read.ok
               THEN /\ columns' = read.columns
                    /\ rawDataRef' = read.data
                    /\ progressStatus' = ""
                    /\ UNCHANGED error
               ELSE /\ error' = <<"Erro ao ler arquivo. Verifique se é um arquivo Excel válido.">>
                    /\ UNCHANGED <<columns, rawDataRef, progressStatus>>
        /\ isLoading' = FALSE
        /\ progress' = [num |-> 0, den |-> 1]
        /\ pending' = Without(pending, k)
        /\ UNCHANGED <<file, mapping, appResult, processedDataRef, calls, data, config, clock,
                       result, idleVars>>

\* handleClearFile.  The button of FileUpload is there when a file is
\* selected and is disabled while isLoading && columns.length === 0; the
\* button 'Processar outro arquivo' is there when there is a result.
HandleClearFile ==
    /\ \/ file # NoFile /\ ~(isLoading /\ Len(columns) = 0)
       \/ appResult.shown
    /\ file' = NoFile
    /\ columns' = <<>>
    /\ mapping' = DEFAULT_MAPPING
    /\ appResult' = NoAppResult
    /\ error' = NoError
    /\ rawDataRef' = <<>>
    /\ processedDataRef' = <<>>
    /\ UNCHANGED <<isLoading, progress, progressStatus, pending, calls, data, config, clock,
                   result, idleVars>>

\* onChange of ColumnMapper, shown when there are columns: a required field
\* is set to the column of the sheet that holds it, or to none.
ChangeMapping ==
    /\ Len(columns) > 0
    /\ \E field \in {"debt_id", "taxpayer_name", "due_date", "amount"} :
       \E col \in {""} \cup {FullMapping[field]} :
           /\ col = "" \/ \E k \in 1..Len(columns) : columns[k] = col
           /\ mapping' = [mapping EXCEPT ![field] = col]
    /\ UNCHANGED <<file, columns, isLoading, error, appResult, progress, progressStatus,
                   rawDataRef, processedDataRef, pending, calls, data, config, clock, result,
                   idleVars>>

\* handleProcess up to its first await.  Its button is there when there are
\* columns and no result, and is disabled when !isMappingValid || isLoading.
HandleProcess ==
    /\ Len(columns) > 0 /\ ~appResult.shown
    /\ IsMappingValid(mapping) /\ ~isLoading
    /\ Len(pending) < MaxPending
    /\ IF file = NoFile \/ Len(rawDataRef) = 0
       THEN UNCHANGED <<isLoading, error, progress, progressStatus, pending>>
       ELSE IF ~IsMappingValid(mapping)
       THEN /\ error' = <<"Por favor, mapeie todos os campos obrigatórios.">>
            /\ UNCHANGED <<isLoading, progress, progressStatus, pending>>
       ELSE /\ isLoading' = TRUE
            /\ error' = NoError
            /\ progress' = [num |-> 0, den |-> 1]
            /\ progressStatus' = "Iniciando processamento..."
            /\ pending' = Append(pending, Waiting("handleProcess", "timer50", file, mapping))
    /\ UNCHANGED <<file, columns, mapping, appResult, rawDataRef, processedDataRef, calls,
                   data, config, clock, result, idleVars>>

\* handleProcess after the timer of 50 ms: processData on what rawDataRef
\* holds now, under the mapping of the closure; then the result is stored
\* and the handler waits for 500 ms, or the error is shown and the handler
\* ends.
ProcessData ==
    \E k \in 1..Len(pending) :
        /\ pending[k].handler = "handleProcess"
        /\ pending[k].at = "timer50"
        /\ config' = AppConfig(pending[k].mapping)
        /\ data' = rawDataRef
        /\ calls' = 1 - calls
        /\ \E readings \in ClockReadings(Len(rawDataRef), clock, config') :
               /\ result' = processData(rawDataRef, config', Instants(readings))
               /\ clock' = IF readings = <<>> THEN clock ELSE readings[Len(readings)]
        /\ IF result'.ok
           THEN /\ processedDataRef' = result'.processedData
                /\ appResult' = [shown |-> TRUE, summary |-> result'.summary,
                                 preview |-> result'.preview]
                /\ progress' = [num |-> result'.progress[Len(result'.progress)].num,
                                den |-> result'.progress[Len(result'.progress)].den]
                /\ progressStatus' = result'.progress[Len(result'.progress)].status
                /\ pending' = [pending EXCEPT ![k].at = "timer500"]
                /\ UNCHANGED <<error, isLoading>>
           ELSE /\ error' = result'.error
                /\ isLoading' = FALSE
                /\ progress' = [num |-> 0, den |-> 1]
                /\ pending' = Without(pending, k)
                /\ UNCHANGED <<processedDataRef, appResult, progressStatus>>
        /\ UNCHANGED <<file, columns, mapping, rawDataRef, idleVars>>

\* handleProcess after the timer of 500 ms: its finally block.
ProcessEnds ==
    \E k \in 1..Len(pending) :
        /\ pending[k].handler = "handleProcess"
        /\ pending[k].at = "timer500"
        /\ isLoading' = FALSE
        /\ progress' = [num |-> 0, den |-> 1]
        /\ pending' = Without(pending, k)
        /\ UNCHANGED <<file, columns, mapping, error, appResult, progressStatus, rawDataRef,
                       processedDataRef, calls, data, config, clock, result, idleVars>>

NextApp ==
    HandleFileSelect \/ FileRead \/ HandleClearFile \/ ChangeMapping \/ HandleProcess
    \/ ProcessData \/ ProcessEnds

SpecApp == InitApp /\ [][NextApp]_vars

(***************************************************************************)
(* The App that calls the server.  Its state is that of the App above      *)
(* without the two refs; the server answers /analyze-headers with the      *)
(* header row of the file it was sent, and /process with a response whose  *)
(* content the App stores as it comes.                                     *)
(***************************************************************************)
\* handleFileSelect up to its await of /analyze-headers.  isLoading is not
\* set here.
HandleFileSelectRemote ==
    /\ file = NoFile
    /\ Len(pending) < MaxPending
    /\ \E selectedFile \in Files :
           /\ file' = selectedFile
           /\ pending' = Append(pending, Waiting("handleFileSelect", "analyze-headers",
                                                 selectedFile, DEFAULT_MAPPING))
    /\ error' = NoError
    /\ appResult' = NoAppResult
    /\ columns' = <<>>
    /\ mapping' = DEFAULT_MAPPING
    /\ UNCHANGED <<isLoading, progress, progressStatus, rawDataRef, processedDataRef, calls,
                   data, config, clock, result, idleVars>>

\* handleFileSelect from its await on: the response of any of the requests
\* in flight arrives, or the request fails.
HeadersResponse ==
    \E k \in 1..Len(pending) :
        /\ pending[k].handler = "handleFileSelect"
        /\ pending[k].at = "analyze-headers"
        /\ LET response == readExcelFile(pending[k].file)
           IN  IF response.ok
               THEN /\ columns' = response.columns
                    /\ UNCHANGED error
               ELSE /\ error' = <<"Erro ao ler cabeçalhos do arquivo. Verifique se o backend está rodando.">>
                    /\ UNCHANGED columns
        /\ pending' = Without(pending, k)
        /\ UNCHANGED <<file, mapping, isLoading, appResult, progress, progressStatus, rawDataRef,
                       processedDataRef, calls, data, config, clock, result, idleVars>>

\* handleClearFile.  The button of FileUpload is there when a file is
\* selected and is disabled while isLoading; the button 'Processar outro
\* arquivo' is there when there is a result.
HandleClearFileRemote ==
    /\ \/ file # NoFile /\ ~isLoading
       \/ appResult.shown
    /\ file' = NoFile
    /\ columns' = <<>>
    /\ mapping' = DEFAULT_MAPPING
    /\ appResult' = NoAppResult
    /\ error' = NoError
    /\ UNCHANGED <<isLoading, progress, progressStatus, rawDataRef, processedDataRef, pending,
                   calls, data, config, clock, result, idleVars>>

\* handleProcess up to its await of /process.  Its button is there when
\* there are columns and no result, and is disabled when !isMappingValid ||
\* isLoading.
HandleProcessRemote ==
    /\ Len(columns) > 0 /\ ~appResult.shown
    /\ IsMappingValid(mapping) /\ ~isLoading
    /\ Len(pending) < MaxPending
    /\ IF file = NoFile
       THEN UNCHANGED <<isLoading, error, progress, progressStatus, pending>>
       ELSE IF ~IsMappingValid(mapping)
       THEN /\ error' = <<"Por favor, mapeie todos os campos obrigatórios.">>
            /\ UNCHANGED <<isLoading, progress, progressStatus, pending>>
       ELSE /\ isLoading' = TRUE
            /\ error' = NoError
            /\ progress' = [num |-> 0, den |-> 1]
            /\ progressStatus' = "Processando dados..."
            /\ pending' = Append(pending, Waiting("handleProcess", "process", file, mapping))
    /\ UNCHANGED <<file, columns, mapping, appResult, rawDataRef, processedDataRef, calls,
                   data, config, clock, result, idleVars>>

\* The callback of progressInterval, which runs every 300 ms until the
\* finally block of handleProcess clears it.
ProgressInterval ==
    /\ \E k \in 1..Len(pending) : pending[k].handler = "handleProcess"
    /\ LET prev == (progress.num * 100) \div progress.den
       IN  progress' = [num |-> IF prev < 30 THEN prev + 5
                                ELSE IF prev < 60 THEN prev + 2
                                ELSE IF prev < 85 THEN prev + 1
                                ELSE prev,
                        den |-> 100]
    /\ UNCHANGED <<file, columns, mapping, isLoading, error, appResult, progressStatus,
                   rawDataRef, processedDataRef, pending, calls, data, config, clock, result,
                   idleVars>>

\* handleProcess from its await of /process on: the response arrives and the
\* handler waits for 500 ms, or the request fails and the handler ends.
ProcessResponse ==
    \E k \in 1..Len(pending) :
        /\ pending[k].handler = "handleProcess"
        /\ pending[k].at = "process"
        /\ \/ /\ progress' = [num |-> 100, den |-> 100]
              /\ progressStatus' = "Concluído!"
              /\ pending' = [pending EXCEPT ![k].at = "timer500"]
              /\ UNCHANGED <<error, isLoading>>
           \/ /\ error' = <<"Erro ao processar arquivo.">>
              /\ isLoading' = FALSE
              /\ progress' = [num |-> 0, den |-> 1]
              /\ pending' = Without(pending, k)
              /\ UNCHANGED progressStatus
        /\ UNCHANGED <<file, columns, mapping, appResult, rawDataRef, processedDataRef, calls,
                       data, config, clock, result, idleVars>>

\* handleProcess after the timer of 500 ms: the response is stored as the
\* result, then the finally block.
ResultShown ==
    \E k \in 1..Len(pending) :
        /\ pending[k].handler = "handleProcess"
        /\ pending[k].at = "timer500"
        /\ appResult' = [NoAppResult EXCEPT !.shown = TRUE]
        /\ isLoading' = FALSE
        /\ progress' = [num |-> 0, den |-> 1]
        /\ pending' = Without(pending, k)
        /\ UNCHANGED <<file, columns, mapping, error, progressStatus, rawDataRef,
                       processedDataRef, calls, data, config, clock, result, idleVars>>

NextRemoteApp ==
    HandleFileSelectRemote \/ HeadersResponse \/ HandleClearFileRemote \/ ChangeMapping
    \/ HandleProcessRemote \/ ProgressInterval \/ ProcessResponse \/ ResultShown

SpecRemoteApp == InitApp /\ [][NextRemoteApp]_vars

(***************************************************************************)
(* Properties of processData.                                              *)
(***************************************************************************)
\* The status and the reason written on annotated row i.
StatusOf(rows, i) == Get(rows[i], StatusCol).s

MotivoOf(rows, i) == Get(rows[i], MotivoCol).s

\* The last call returned.
Done == phase = "done"

RowIndexes == 1..Len(data)

\* Does each rule, taken alone, match a row?
PrescriptionMatches(row, now) ==
    /\ config.prescription.enabled
    /\ parseDate(Get(row, config.mapping.due_date)).ok
    /\ DateBefore(parseDate(Get(row, config.mapping.due_date)).dt,
                  CutoffDate(config.prescription, now))

ImmunityMatches(row) ==
    /\ config.immunity.enabled
    /\ HasKeyword(config.immunity.keywords, TempName(row, config.mapping))

ExemptionMatches(row) ==
    /\ config.exemption.enabled
    /\ \/ IsBelowThreshold(config.exemption, TempAmount(row, config.mapping))
       \/ IsExemptTribute(config.exemption, TempTribute(row, config.mapping))

IncompleteMatches(row) ==
    /\ config.incomplete.enabled
    /\ \/ IsBadName(config.incomplete, TempName(row, config.mapping))
       \/ IsBadDoc(config.incomplete, config.mapping, TempDoc(row, config.mapping))

SomeRuleMatches(row, now) ==
    \/ PrescriptionMatches(row, now)
    \/ ImmunityMatches(row)
    \/ ExemptionMatches(row)
    \/ IncompleteMatches(row)

\* C1: every row of a run gets one status of the closed set; the status is
\* 'Válido' exactly when no enabled rule matches the row, and the reason is
\* the empty string exactly when the status is 'Válido'.
C1_OneStatusPerRow ==
    Done =>
        \A i \in RowIndexes :
            /\ StatusOf(result.processedData, i) \in StatusLabels
            /\ (StatusOf(result.processedData, i) = Valido)
                   <=> ~SomeRuleMatches(data[i], nows[i])
            /\ (MotivoOf(result.processedData, i) = <<>>)
                   <=> (StatusOf(result.processedData, i) = Valido)

\* A run with a valid row and a row exempted for its amount alone.
C1_Witness ==
    /\ Done
    /\ \E i \in RowIndexes : StatusOf(result.processedData, i) = Valido
    /\ \E i \in RowIndexes :
           /\ StatusOf(result.processedData, i) = Isento
           /\ ~IsExemptTribute(config.exemption, TempTribute(data[i], config.mapping))

\* C2: the status of a row is the one of the earliest matching rule in the
\* order Prescription, Immunity, Exemption, Incomplete; a row that is both
\* before the cutoff and immune by its name is 'Prescrito'.
C2_FirstMatchWins ==
    Done =>
        \A i \in RowIndexes :
            LET row == data[i]
                st  == StatusOf(result.processedData, i)
            IN  /\ PrescriptionMatches(row, nows[i]) => st = Prescrito
                /\ (~PrescriptionMatches(row, nows[i]) /\ ImmunityMatches(row))
                       => st = Imune
                /\ (/\ ~PrescriptionMatches(row, nows[i])
                    /\ ~ImmunityMatches(row)
                    /\ ExemptionMatches(row)) => st = Isento
                /\ (/\ ~PrescriptionMatches(row, nows[i])
                    /\ ~ImmunityMatches(row)
                    /\ ~ExemptionMatches(row)
                    /\ IncompleteMatches(row)) => st = DadosIncompletos

\* A row matched by Prescription and by Immunity, both enabled.
C2_Witness ==
    /\ Done
    /\ \E i \in RowIndexes :
           /\ PrescriptionMatches(data[i], nows[i])
           /\ ImmunityMatches(data[i])
           /\ StatusOf(result.processedData, i) = Prescrito

\* C3: the five status counts of a summary add up to total_records, which
\* is the number of input rows.
C3_CountsAddUp ==
    Done =>
        /\ result.summary.total_records = Len(data)
        /\ result.summary.valid_count + result.summary.prescribed_count
           + result.summary.immune_count + result.summary.exempt_count
           + result.summary.incomplete_count = result.summary.total_records

\* A summary of two rows, one valid and one not.
C3_Witness ==
    /\ Done
    /\ result.summary.total_records = 2
    /\ result.summary.valid_count = 1

\* The sum of parseAmount over the mapped amount cells of the rows picked by
\* keep.
RECURSIVE SumRange(_, _, _, _, _)
SumRange(rows, col, keep, from, to) ==
    IF from > to THEN 0
    ELSE IF from = to
    THEN (IF from \in keep THEN parseAmount(Get(rows[from], col)) ELSE 0)
    ELSE SumRange(rows, col, keep, from, (from + to) \div 2)
         + SumRange(rows, col, keep, ((from + to) \div 2) + 1, to)

SumAmounts(rows, col, keep) == SumRange(rows, col, keep, 1, Len(rows))

ValidIndexes == {i \in RowIndexes : StatusOf(result.processedData, i) = Valido}

\* C4: total_amount_valid is the sum of the parsed amount cells of the input
\* rows classified 'Válido', total_amount_removed the sum over the other
\* input rows, so that both add up to the sum over all input rows.
C4_AmountsAddUp ==
    Done =>
        /\ result.summary.total_amount_valid
               = SumAmounts(data, config.mapping.amount, ValidIndexes)
        /\ result.summary.total_amount_removed
               = SumAmounts(data, config.mapping.amount, RowIndexes \ ValidIndexes)
        /\ result.summary.total_amount_valid + result.summary.total_amount_removed
               = SumAmounts(data, config.mapping.amount, RowIndexes)

\* C5: a row whose due-date cell parseDate cannot read is never 'Prescrito'.
C5_NoDateNeverPrescribed ==
    Done =>
        \A i \in RowIndexes :
            ~parseDate(Get(data[i], config.mapping.due_date)).ok
                => StatusOf(result.processedData, i) # Prescrito

\* A row without a readable due date classified with Prescription enabled.
C5_Witness ==
    /\ Done
    /\ config.prescription.enabled
    /\ \E i \in RowIndexes :
           /\ Get(data[i], config.mapping.due_date).t = "str"
           /\ ~parseDate(Get(data[i], config.mapping.due_date)).ok

\* Is some required field mapped to a column the first row does not have?
RequiredColumnMissing ==
    \E col \in {config.mapping.debt_id, config.mapping.taxpayer_name,
                config.mapping.due_date, config.mapping.amount} :
        col # "" /\ col \notin DOMAIN data[1]

\* C6: when a required field is mapped to a column that is not a key of the
\* first row, the call fails and produces no annotated row, no summary, no
\* preview and no progress report.
C6_FailsBeforeAnyRow ==
    (run # "none" /\ data # <<>> /\ RequiredColumnMissing) =>
        /\ phase = "failed"
        /\ ~result.ok
        /\ result.error # <<>>
        /\ result.processedData = <<>>
        /\ result.preview = <<>>
        /\ result.summary = NoSummary
        /\ result.progress = <<>>

\* A failed call on two rows of which only the first lacks the column.
C6_Witness ==
    /\ phase = "failed"
    /\ Len(data) = 2
    /\ RequiredColumnMissing
    /\ config.mapping.amount \in DOMAIN data[2]
    /\ config.mapping.amount \notin DOMAIN data[1]

\* The missing required columns in the order debt_id, taxpayer_name,
\* due_date, amount.
MissingInFieldOrder ==
    LET Missing(col) == col # "" /\ (data = <<>> \/ col \notin DOMAIN data[1])
        Only(col)    == IF Missing(col) THEN <<col>> ELSE <<>>
    IN  Only(config.mapping.debt_id) \o Only(config.mapping.taxpayer_name)
        \o Only(config.mapping.due_date) \o Only(config.mapping.amount)

\* C7: the error of a failed call is the fixed prefix followed by exactly the
\* missing required columns, in the order of the required fields, separated
\* by ", ".
C7_ErrorListsMissingColumns ==
    phase = "failed" =>
        LET n == Len(MissingInFieldOrder)
        IN  /\ n > 0
            /\ Len(result.error) = 2 * n
            /\ result.error[1] = "Colunas não encontradas: "
            /\ \A k \in 1..n : result.error[2 * k] = MissingInFieldOrder[k]
            /\ \A k \in 1..(n - 1) : result.error[2 * k + 1] = ", "

\* A failed call with two missing columns whose names are not in
\* alphabetical order.
C7_Witness ==
    /\ phase = "failed"
    /\ MissingInFieldOrder = <<"ZZ", "AA">>

\* C8: when cpf_cnpj is not mapped, a row with a name of three characters or
\* more that holds no bad-name keyword, and that no earlier rule matches, is
\* 'Válido', also with check_cpf_cnpj = true.
C8_UnmappedDocumentNeverIncomplete ==
    (Done /\ config.mapping.cpf_cnpj = "") =>
        \A i \in RowIndexes :
            (/\ Len(TempName(data[i], config.mapping)) >= 3
             /\ ~HasKeyword(config.incomplete.keywords, TempName(data[i], config.mapping))
             /\ ~PrescriptionMatches(data[i], nows[i])
             /\ ~ImmunityMatches(data[i])
             /\ ~ExemptionMatches(data[i]))
                => StatusOf(result.processedData, i) = Valido

\* Such a row, classified with the Incomplete rule enabled and
\* check_cpf_cnpj = true.
C8_Witness ==
    /\ Done
    /\ config.mapping.cpf_cnpj = ""
    /\ config.mapping.taxpayer_name # ""
    /\ config.incomplete.enabled
    /\ config.incomplete.check_cpf_cnpj
    /\ \E i \in RowIndexes : StatusOf(result.processedData, i) = Valido

\* C9: a second call on the annotated rows of the first call, with the same
\* mapping and configuration, gives every row the status and the reason the
\* first call gave it.
C9_SecondRunAgrees ==
    (run = "again" /\ Done) =>
        \A i \in RowIndexes :
            /\ StatusOf(result.processedData, i) = StatusOf(first.result.processedData, i)
            /\ MotivoOf(result.processedData, i) = MotivoOf(first.result.processedData, i)

\* C10: a call on the same rows in another order gives each row the status
\* it had in the original order.
C10_OrderIndependent ==
    (run = "permuted" /\ Done) =>
        \A i \in RowIndexes :
            StatusOf(result.processedData, i)
                = StatusOf(first.result.processedData, perm[i])

\* The columns of a row other than the two annotation columns.
OwnColumns(row) == DOMAIN row \ {StatusCol, MotivoCol}

\* C11: no row is dropped: the result has one annotated row per input row,
\* the i-th annotated row carries the fields of the i-th input row and the
\* status of that row, and processed_records = total_records = the number
\* of input rows.
C11_NoRowDropped ==
    Done =>
        /\ Len(result.processedData) = Len(data)
        /\ \A i \in RowIndexes :
               /\ OwnColumns(result.processedData[i]) = OwnColumns(data[i])
               /\ \A c \in OwnColumns(data[i]) : result.processedData[i][c] = data[i][c]
               /\ StatusOf(result.processedData, i) = Classify(data[i], config, nows[i]).status
        /\ result.summary.processed_records = Len(data)
        /\ result.summary.total_records = Len(data)

\* A run on two rows of which the second one is 'Dados Incompletos' and the
\* first one is not.
C11_Witness ==
    /\ Done
    /\ Len(data) = 2
    /\ StatusOf(result.processedData, 1) # DadosIncompletos
    /\ StatusOf(result.processedData, 2) = DadosIncompletos

\* C12: the input rows are left as they were, and every annotated row holds
\* every field of its input row with the value it had there, plus the two
\* fields Status_Higienizacao and Motivo_Higienizacao.
C12_InputRowsKept ==
    Done =>
        /\ run = "first" => data = first.data
        /\ \A i \in RowIndexes :
               /\ DOMAIN result.processedData[i] = DOMAIN data[i] \cup {StatusCol, MotivoCol}
               /\ \A c \in DOMAIN data[i] : result.processedData[i][c] = data[i][c]

\* C13: the preview is the first min(100, number of rows) annotated rows, in
\* their order, and processedData keeps every annotated row.
C13_PreviewIsPrefix ==
    Done =>
        /\ Len(result.processedData) = Len(data)
        /\ Len(result.preview)
               = (IF Len(data) < 100 THEN Len(data) ELSE 100)
        /\ \A i \in 1..Len(result.preview) : result.preview[i] = result.processedData[i]

\* A run on more rows than the preview holds.
C13_Witness ==
    /\ Done
    /\ Len(data) > 100
    /\ Len(result.preview) = 100
    /\ Len(result.processedData) = Len(data)

\* Comparison of two reported percentages, and of one with a whole number.
AtMost(a, b) == a.num * b.den <= b.num * a.den

Below(a, b) == a.num * b.den < b.num * a.den

Percent(n) == [num |-> n, den |-> 1]

\* Is report k of a run made from inside the row loop?
InRowLoop(k) == result.progress[k].status = "Processando registros..."

\* C14: the percentages a successful run reports never decrease (the first
\* report of the row loop repeats the 10 of the setup, every later report is
\* larger than the one before it); the reports of the row loop lie in
\* [10, 90], the reports after the row loop lie in (90, 100] and the last
\* one is 100.
C14_ProgressIncreases ==
    Done =>
        LET pr == result.progress
            n  == Len(pr)
        IN  /\ n >= 3
            /\ \A k \in 1..(n - 1) : AtMost(pr[k], pr[k + 1])
            /\ \A k \in 2..(n - 1) : Below(pr[k], pr[k + 1])
            /\ \A k \in 1..n :
                   InRowLoop(k) => /\ AtMost(Percent(10), pr[k])
                                   /\ AtMost(pr[k], Percent(90))
                                   /\ 1 < k /\ k < n - 1
            /\ \A k \in (n - 1)..n :
                   /\ ~InRowLoop(k)
                   /\ Below(Percent(90), pr[k])
                   /\ AtMost(pr[k], Percent(100))
            /\ pr[n].num = 100 * pr[n].den

\* A run on so many rows that only some of them report progress.
C14_Witness ==
    /\ Done
    /\ Len(data) > 10
    /\ Cardinality({k \in 1..Len(result.progress) : InRowLoop(k)}) = 10

\* Has row i no tribute: the field is not mapped, or the row lacks the cell?
NoTribute(i) ==
    \/ config.mapping.tribute_type = ""
    \/ config.mapping.tribute_type \notin DOMAIN data[i]

\* C15: for a row without tribute (field not mapped, or cell missing) the
\* normalized tribute is the empty string and the tribute test of the
\* Exemption rule does not trigger, whatever the list of exempt tributes:
\* the row never gets the reason 'Tributo Isento'.
C15_NoTributeNeverExempt ==
    Done =>
        \A i \in RowIndexes :
            NoTribute(i) =>
                /\ TempTribute(data[i], config.mapping) = <<>>
                /\ MotivoOf(result.processedData, i) # MotivoTributo

\* Does row i reach the Exemption rule: the rule is enabled and neither
\* Prescription nor Immunity matches the row?
ReachesExemption(i) ==
    /\ config.exemption.enabled
    /\ ~PrescriptionMatches(data[i], nows[i])
    /\ ~ImmunityMatches(data[i])

\* The reason the amount test gives.
AmountReason == MotivoValorPrefix \o NumToStr(config.exemption.amount_threshold)

\* C16: for a row that reaches the Exemption rule, the amount test triggers
\* exactly when amount_threshold > 0 and the parsed amount is strictly less
\* than amount_threshold: such a row is 'Isento', and a row whose tribute is
\* not exempt is 'Isento' (with the reason of the amount test) only then; so
\* with amount_threshold = 0, or with an amount equal to the threshold, no row
\* is 'Isento' because of its amount.
C16_AmountBelowThreshold ==
    Done =>
        \A i \in RowIndexes :
            LET amount == parseAmount(Get(data[i], config.mapping.amount))
                below  == /\ config.exemption.amount_threshold > 0
                          /\ amount < config.exemption.amount_threshold
            IN  ReachesExemption(i) =>
                    /\ below => StatusOf(result.processedData, i) = Isento
                    /\ ~IsExemptTribute(config.exemption, TempTribute(data[i], config.mapping))
                           => /\ (StatusOf(result.processedData, i) = Isento) <=> below
                              /\ (MotivoOf(result.processedData, i) = AmountReason) <=> below

\* A row that reaches the Exemption rule with an amount equal to the
\* positive threshold and a tribute that is not exempt.
C16_Witness ==
    /\ Done
    /\ config.exemption.amount_threshold > 0
    /\ \E i \in RowIndexes :
           /\ ReachesExemption(i)
           /\ parseAmount(Get(data[i], config.mapping.amount)) = config.exemption.amount_threshold
           /\ ~IsExemptTribute(config.exemption, TempTribute(data[i], config.mapping))
           /\ StatusOf(result.processedData, i) # Isento

\* Is the amount of row i below a positive threshold?
AmountTriggers(i) ==
    /\ config.exemption.amount_threshold > 0
    /\ parseAmount(Get(data[i], config.mapping.amount)) < config.exemption.amount_threshold

\* Is the normalized tribute of row i one of the exempt tributes?
TributeTriggers(i) ==
    \E k \in 1..Len(config.exemption.tributes) :
        ToUpperCase(config.exemption.tributes[k]) = TempTribute(data[i], config.mapping)

\* C17: for a row that reaches the Exemption rule, when the amount test and
\* the tribute test both trigger the status is 'Isento' with the reason
\* 'Tributo Isento'; when only the amount test triggers the status is
\* 'Isento' with the reason 'Valor abaixo de R$ <threshold>'.
C17_TributeReasonWins ==
    Done =>
        \A i \in RowIndexes :
            ReachesExemption(i) =>
                /\ (AmountTriggers(i) /\ TributeTriggers(i)) =>
                       /\ StatusOf(result.processedData, i) = Isento
                       /\ MotivoOf(result.processedData, i)
                              = <<"T", "r", "i", "b", "u", "t", "o", " ",
                                  "I", "s", "e", "n", "t", "o">>
                /\ (AmountTriggers(i) /\ ~TributeTriggers(i)) =>
                       /\ StatusOf(result.processedData, i) = Isento
                       /\ MotivoOf(result.processedData, i) = AmountReason

\* A run with a row for which both tests trigger and a row for which only
\* the amount test triggers.
C17_Witness ==
    /\ Done
    /\ \E i \in RowIndexes :
           ReachesExemption(i) /\ AmountTriggers(i) /\ TributeTriggers(i)
    /\ \E i \in RowIndexes :
           ReachesExemption(i) /\ AmountTriggers(i) /\ ~TributeTriggers(i)

\* The taxpayer name of row i as a string, trimmed and in upper case.
TrimmedName(i) ==
    ToUpperCase(Trim(StringOf(Get(data[i], config.mapping.taxpayer_name))))

\* C18: with the Incomplete rule enabled, a row that no earlier rule matches
\* is 'Dados Incompletos' whenever its name, as a string, trimmed and in
\* upper case, holds a bad-name keyword or has fewer than 3 characters.
C18_BadNameIsIncomplete ==
    (Done /\ config.incomplete.enabled) =>
        \A i \in RowIndexes :
            (/\ ~PrescriptionMatches(data[i], nows[i])
             /\ ~ImmunityMatches(data[i])
             /\ ~ExemptionMatches(data[i])
             /\ \/ HasKeyword(config.incomplete.keywords, TrimmedName(i))
                \/ Len(TrimmedName(i)) < 3)
                => StatusOf(result.processedData, i) = DadosIncompletos

\* The configuration in which every disabled rule, still disabled, has
\* settings that would match every row: a cutoff a thousand years ahead, the
\* empty keyword, a threshold above every amount.
WithDisabledRulesMatchingAll ==
    [mapping      |-> config.mapping,
     prescription |-> IF config.prescription.enabled THEN config.prescription
                      ELSE [enabled |-> FALSE, years |-> 0 - 1000,
                            reference_date |-> ReferenceDateStr],
     immunity     |-> IF config.immunity.enabled THEN config.immunity
                      ELSE [enabled |-> FALSE, keywords |-> <<<<>>>>],
     exemption    |-> IF config.exemption.enabled THEN config.exemption
                      ELSE [enabled |-> FALSE, amount_threshold |-> Amount(1000000),
                            tributes |-> <<<<>>>>],
     incomplete   |-> IF config.incomplete.enabled THEN config.incomplete
                      ELSE [enabled |-> FALSE, keywords |-> <<<<>>>>,
                            check_cpf_cnpj |-> TRUE]]

\* C19: a rule whose enabled flag is false gives its status to no row, and
\* the status of every row is the one the enabled rules give it, whatever
\* the settings of the disabled rules.
C19_DisabledRuleIsSilent ==
    Done =>
        \A i \in RowIndexes :
            LET st == StatusOf(result.processedData, i)
            IN  /\ ~config.prescription.enabled => st # Prescrito
                /\ ~config.immunity.enabled => st # Imune
                /\ ~config.exemption.enabled => st # Isento
                /\ ~config.incomplete.enabled => st # DadosIncompletos
                /\ st = Classify(data[i], WithDisabledRulesMatchingAll, nows[i]).status

\* A run with Immunity off and Exemption on in which a row that is not
\* prescribed has an immunity keyword in its name and is 'Isento'.
C19_Witness ==
    /\ Done
    /\ ~config.immunity.enabled
    /\ config.exemption.enabled
    /\ \E i \in RowIndexes :
           /\ ~PrescriptionMatches(data[i], nows[i])
           /\ HasKeyword(config.immunity.keywords, TempName(data[i], config.mapping))
           /\ StatusOf(result.processedData, i) = Isento

\* A string with each of its digits replaced by "9".
Picture(s) == [k \in 1..Len(s) |-> IF s[k] \in {"0", "1", "2", "3", "4", "5", "6", "7", "8", "9"}
                                   THEN "9" ELSE s[k]]

\* The number a group of digits of s stands for.
Group(s, from, to) == ParseInt(SubSeq(s, from, to))

\* A date of the calendar (at local midnight) given by its three numbers.
OnDay(date, y, m, d) == date.y = y /\ date.m = m /\ date.d = d /\ date.h = 0

\* C20: parseDate gives, for a string that after trimming has the shape
\* DD/MM/YYYY or DD-MM-YYYY, the date whose day, month and year are the
\* first, second and third group; for the shape YYYY-MM-DD the date whose
\* year is the first group; for a bare year from 1900 to 2100, as a string
\* of four digits or as a number, the first of January of that year; and
\* none for every other string and for an empty or missing value.
C20_ParseDateByPattern ==
    phase = "parsed" =>
        LET s   == Trim(value.s)
            pic == Picture(s)
        IN  /\ (value.t = "str" /\ pic \in {<<"9", "9", "/", "9", "9", "/", "9", "9", "9", "9">>,
                                            <<"9", "9", "-", "9", "9", "-", "9", "9", "9", "9">>})
                   => /\ parsed.ok
                      /\ OnDay(parsed.dt, Group(s, 7, 10), Group(s, 4, 5), Group(s, 1, 2))
            /\ (value.t = "str" /\ pic = <<"9", "9", "9", "9", "-", "9", "9", "-", "9", "9">>)
                   => /\ parsed.ok
                      /\ parsed.dt.y = Group(s, 1, 4)
            /\ (value.t = "str" /\ pic = <<"9", "9", "9", "9">>
                 /\ Group(s, 1, 4) >= 1900 /\ Group(s, 1, 4) <= 2100)
                   => /\ parsed.ok
                      /\ OnDay(parsed.dt, Group(s, 1, 4), 1, 1)
            /\ (value.t = "num" /\ value.n % 100 = 0
                 /\ value.n >= Amount(1900) /\ value.n <= Amount(2100))
                   => /\ parsed.ok
                      /\ OnDay(parsed.dt, value.n \div 100, 1, 1)
            /\ (value.t = "str"
                 /\ pic \notin {<<"9", "9", "/", "9", "9", "/", "9", "9", "9", "9">>,
                                <<"9", "9", "-", "9", "9", "-", "9", "9", "9", "9">>,
                                <<"9", "9", "9", "9", "-", "9", "9", "-", "9", "9">>}
                 /\ ~(/\ pic = <<"9", "9", "9", "9">>
                      /\ Group(s, 1, 4) >= 1900 /\ Group(s, 1, 4) <= 2100))
                   => ~parsed.ok
            /\ (value.t = "undef" \/ (value.t = "str" /\ value.s = <<>>)) => ~parsed.ok

\* Is s a decimal numeral: an optional sign, digits, and at most one "."
\* followed by digits, with a digit somewhere and nothing else.
IsDecimal(s) ==
    LET body == IF s # <<>> /\ Head(s) \in {"-", "+"} THEN Tail(s) ELSE s
        dots == {k \in 1..Len(body) : body[k] = "."}
    IN  /\ \A k \in 1..Len(body) : body[k] = "." \/ IsDigit(body[k])
        /\ Cardinality(dots) <= 1
        /\ \E k \in 1..Len(body) : IsDigit(body[k])

\* The number, in hundredths, the decimal numeral s stands for.
DecimalValue(s) ==
    LET neg   == s # <<>> /\ Head(s) = "-"
        dot   == IF HasChar(s, ".") THEN CHOOSE k \in 1..Len(s) : s[k] = "." ELSE Len(s) + 1
        whole == DigitsOnly(SubSeq(s, 1, dot - 1))
        cents == SubSeq(SubSeq(s, dot + 1, Len(s)) \o <<"0", "0">>, 1, 2)
        abs   == 100 * ParseInt(whole) + ParseInt(cents)
    IN  IF neg THEN 0 - abs ELSE abs

\* The text of an amount cell without its currency marker, with "." for the
\* decimal separator: "." are thousands separators when "," occurs too, and
\* "," is the decimal separator when it occurs.
Normalized(s) ==
    LET t == Trim(StripCurrency(s))
        u == IF HasChar(t, ",") /\ HasChar(t, ".") THEN SelectSeq(t, LAMBDA c : c # ".") ELSE t
    IN  [k \in 1..Len(u) |-> IF u[k] = "," THEN "." ELSE u[k]]

\* C21: parseAmount returns a number for every input: 0 for a missing or
\* empty value, the number itself for a number, and for a string the number
\* that its text without the currency marker stands for, read with "." as
\* thousands separator and "," as decimal separator when both occur, with
\* "," as decimal separator when only "," occurs and as a plain decimal
\* otherwise; a string that is not a number gives 0.
C21_ParseAmountReadsNumerals ==
    phase = "parsed" =>
        /\ parsedAmount \in Int
        /\ (value.t = "undef" \/ (value.t = "str" /\ value.s = <<>>)) => parsedAmount = 0
        /\ value.t = "num" => parsedAmount = value.n
        /\ (value.t = "str" /\ IsDecimal(Normalized(value.s)))
               => parsedAmount = DecimalValue(Normalized(value.s))
        /\ (value.t = "str" /\ ~IsDecimal(Normalized(value.s))) => parsedAmount = 0

\* A workbook was exported from the result of the last call.
Exported == phase = "done" /\ workbook.written

\* Does the row occur in the sheet?
Occurs(sheet, row) == \E k \in 1..Len(sheet) : sheet[k] = row

\* The status sheets of the workbook a row occurs in.
SheetsWith(row) ==
    {name \in {"ImunesEIsentos", "Prescritos", "Ignorados", "DividaAtivaAposHigienizacao"} :
        Occurs(workbook[name], row)}

\* The status sheet the rows of a status belong to.
SheetOfStatus ==
    (Imune :> "ImunesEIsentos") @@ (Isento :> "ImunesEIsentos")
    @@ (Prescrito :> "Prescritos") @@ (DadosIncompletos :> "Ignorados")
    @@ (Valido :> "DividaAtivaAposHigienizacao")

\* C22: in the exported workbook every annotated row is in the sheet of all
\* rows and in exactly one of the four status sheets, the one of its status:
\* 'Imune' and 'Isento' rows in 'Imunes e Isentos', 'Prescrito' rows in
\* 'Prescritos', 'Dados Incompletos' rows in 'Ignorados' and 'Válido' rows in
\* 'Dívida Ativa após higienização'; and the four status sheets together have
\* as many rows as there are annotated rows.
C22_OneStatusSheetPerRow ==
    Exported =>
        /\ \A i \in 1..Len(result.processedData) :
               /\ Occurs(workbook.DividaAtiva, result.processedData[i])
               /\ SheetsWith(result.processedData[i])
                      = {SheetOfStatus[StatusOf(result.processedData, i)]}
        /\ Len(workbook.DividaAtiva) = Len(result.processedData)
        /\ Len(workbook.ImunesEIsentos) + Len(workbook.Prescritos) + Len(workbook.Ignorados)
               + Len(workbook.DividaAtivaAposHigienizacao) = Len(result.processedData)

\* A workbook with an 'Imune' row and an 'Isento' row in 'Imunes e Isentos'.
C22_Witness ==
    /\ Exported
    /\ \E i, j \in 1..Len(result.processedData) :
           /\ StatusOf(result.processedData, i) = Imune
           /\ StatusOf(result.processedData, j) = Isento
           /\ Occurs(workbook.ImunesEIsentos, result.processedData[i])
           /\ Occurs(workbook.ImunesEIsentos, result.processedData[j])

\* The text of a cell of the tax year column.
YearText(cell) ==
    CASE cell.t = "num" -> NumToStr(cell.n)
      [] cell.t = "str" -> cell.s
      [] cell.t = "date" -> DateToString(cell.dt)
      [] OTHER -> <<>>

\* The year of the parsed due date of an annotated row, or 'N/A'.
DueYear(row) ==
    IF parseDate(Get(row, config.mapping.due_date)).ok
    THEN NatToStr(parseDate(Get(row, config.mapping.due_date)).dt.y)
    ELSE <<"N", "/", "A">>

\* The year bucket of a row: the value of the tax_year column whenever the
\* field is mapped.
BucketByMapping(row) ==
    IF config.mapping.tax_year # "" THEN YearText(Get(row, config.mapping.tax_year))
    ELSE DueYear(row)

\* Is the cell empty: missing, the empty string or the number 0?
Blank(cell) == cell.t = "undef" \/ cell = Str(<<>>) \/ cell = Num(0)

\* The year bucket of a row: the value of the tax_year column when the field
\* is mapped and the cell of the row is not empty.
BucketByCell(row) ==
    IF config.mapping.tax_year # "" /\ ~Blank(Get(row, config.mapping.tax_year))
    THEN YearText(Get(row, config.mapping.tax_year))
    ELSE DueYear(row)

\* The status groups of the summary table, by column.
SummaryColumns ==
    [DividaAtiva |-> {Valido}, Imunes |-> {Imune, Isento},
     Ignorados |-> {DadosIncompletos}, Prescritos |-> {Prescrito}]

\* The summary table has one line per bucket, and in it, column by column,
\* the sum of the amounts of the rows of that bucket and status group.
TableFollows(Bucket(_)) ==
    LET rows   == result.processedData
        table  == workbook.Resumo.tabela
        years  == {Bucket(rows[i]) : i \in 1..Len(rows)}
    IN  /\ Len(table) = Cardinality(years)
        /\ \A y \in years :
               \E k \in 1..Len(table) :
                   /\ table[k].Ano = y
                   /\ \A col \in DOMAIN SummaryColumns :
                          table[k][col] = formatCurrency(
                              SumAmounts(rows, config.mapping.amount,
                                  {i \in 1..Len(rows) :
                                      /\ Bucket(rows[i]) = y
                                      /\ StatusOf(rows, i) \in SummaryColumns[col]}))

\* C23 as claimed: in the summary of the export each row's amount is added
\* to exactly one year bucket: the value of the tax_year column if that
\* field is mapped, else the year of the parsed due date, else 'N/A'.
C23_BucketByMappedField == Exported => TableFollows(BucketByMapping)

\* C23 as amended: the bucket is the value of the tax_year column if that
\* field is mapped and the row's cell is not empty, else the year of the
\* parsed due date, else 'N/A'.
C23_BucketByFilledCell == Exported => TableFollows(BucketByCell)

\* A workbook of a sheet with the tax year mapped, a row counted under its
\* tax year, which is not the year of its due date, and a row without tax
\* year counted under the year of its due date.
C23_Witness ==
    /\ Exported
    /\ config.mapping.tax_year # ""
    /\ \E i, j \in 1..Len(result.processedData) :
           /\ ~Blank(Get(result.processedData[i], config.mapping.tax_year))
           /\ BucketByCell(result.processedData[i]) # DueYear(result.processedData[i])
           /\ Blank(Get(result.processedData[j], config.mapping.tax_year))
           /\ DueYear(result.processedData[j]) # <<"N", "/", "A">>
           /\ \E k \in 1..Len(workbook.Resumo.tabela) :
                  workbook.Resumo.tabela[k].Ano = DueYear(result.processedData[j])

\* The cutoff of row i: reference_date, or the time the row was processed
\* at, with the year lowered by the configured number of years.
CutoffOf(i) ==
    LET base == IF config.prescription.reference_date # <<>>
                THEN NewDateFromString(config.prescription.reference_date)
                ELSE nows[i]
    IN  [base EXCEPT !.y = @ - config.prescription.years]

\* C24: with the Prescription rule enabled, a row with a known due date is
\* 'Prescrito' exactly when that date is strictly earlier than the cutoff
\* (reference_date, or the current time when absent, minus the configured
\* number of years); a row whose due date equals the cutoff is not
\* 'Prescrito', and the reason of a 'Prescrito' row contains the formatted
\* cutoff date.
C24_PrescritoStrictlyBeforeCutoff ==
    (Done /\ config.prescription.enabled) =>
        \A i \in RowIndexes :
            LET due == parseDate(Get(data[i], config.mapping.due_date))
            IN  due.ok =>
                    /\ StatusOf(result.processedData, i) = Prescrito
                           <=> DateBefore(due.dt, CutoffOf(i))
                    /\ due.dt = CutoffOf(i) => StatusOf(result.processedData, i) # Prescrito
                    /\ StatusOf(result.processedData, i) = Prescrito
                           => Includes(MotivoOf(result.processedData, i),
                                       FormatDatePtBR(CutoffOf(i)))

\* A run with a row whose due date is the cutoff and a row that is
\* 'Prescrito'.
C24_Witness ==
    /\ Done
    /\ config.prescription.enabled
    /\ \E i, j \in RowIndexes :
           /\ parseDate(Get(data[i], config.mapping.due_date)).ok
           /\ parseDate(Get(data[i], config.mapping.due_date)).dt = CutoffOf(i)
           /\ StatusOf(result.processedData, j) = Prescrito

\* Is the status cell of an annotated row one of the five labels?
Recognized(row) ==
    \E st \in {Prescrito, Imune, Isento, DadosIncompletos, Valido} : Get(row, StatusCol) = Str(st)

\* The number of rows with a status.
CountOf(st) == Cardinality({i \in 1..Len(data) : Get(data[i], StatusCol) = Str(st)})

\* C25: in the aggregation pass an annotated row whose status is not one of
\* the five recognized values increments no status counter and does not
\* abort the run, while its amount is still accumulated, into
\* total_amount_removed.
C25_UnknownStatusOnlyAddsAmount ==
    phase = "aggregated" =>
        /\ result.ok
        /\ result.summary.prescribed_count = CountOf(Prescrito)
        /\ result.summary.immune_count = CountOf(Imune)
        /\ result.summary.exempt_count = CountOf(Isento)
        /\ result.summary.incomplete_count = CountOf(DadosIncompletos)
        /\ result.summary.valid_count = CountOf(Valido)
        /\ result.summary.total_amount_valid
               = SumAmounts(data, config.mapping.amount,
                            {i \in 1..Len(data) : Get(data[i], StatusCol) = Str(Valido)})
        /\ result.summary.total_amount_removed
               = SumAmounts(data, config.mapping.amount,
                            {i \in 1..Len(data) : Get(data[i], StatusCol) # Str(Valido)})

\* A pass over a row of unrecognized status with an amount and a row that
\* is 'Válido'.
C25_Witness ==
    /\ phase = "aggregated"
    /\ \E i, j \in 1..Len(data) :
           /\ ~Recognized(data[i])
           /\ parseAmount(Get(data[i], config.mapping.amount)) > 0
           /\ Get(data[j], StatusCol) = Str(Valido)
    /\ result.summary.total_amount_removed > 0

\* The columns the required fields of the mapping name.
MappedRequired ==
    {config.mapping.debt_id, config.mapping.taxpayer_name, config.mapping.due_date,
     config.mapping.amount} \ {""}

\* C26: processData called with no rows and a mapping in which a required
\* field names a column returns no summary (so none with total_records = 0):
\* it fails with the error of the missing columns, which lists every mapped
\* required column.
C26_NoRowsFailValidation ==
    (run # "none" /\ data = <<>> /\ MappedRequired # {}) =>
        /\ phase = "failed"
        /\ ~result.ok
        /\ result.error[1] = "Colunas não encontradas: "
        /\ {result.error[2 * k] : k \in 1..(Len(result.error) \div 2)} = MappedRequired
        /\ Len(result.error) = 2 * Cardinality(MappedRequired)

\* A failed call without rows under a mapping with the four required fields.
C26_Witness ==
    /\ phase = "failed"
    /\ data = <<>>
    /\ Cardinality(MappedRequired) = 4

\* Is the amount cell missing or unparseable, and so parsed as 0?
NoAmount(cell) ==
    /\ parseAmount(cell) = 0
    /\ \/ cell.t \in {"undef", "date"}
       \/ cell.t = "str" /\ ~IsDecimal(Normalized(cell.s))

\* C27: with the Exemption rule enabled and amount_threshold > 0, every row
\* whose amount cell is missing or unparseable (parsed as 0) and which
\* matches neither Prescription nor Immunity is 'Isento', and its amount, 0,
\* is counted in total_amount_removed.
C27_NoAmountIsExempt ==
    (Done /\ config.exemption.enabled /\ config.exemption.amount_threshold > 0) =>
        /\ \A i \in RowIndexes :
               (/\ NoAmount(Get(data[i], config.mapping.amount))
                /\ ~PrescriptionMatches(data[i], nows[i])
                /\ ~ImmunityMatches(data[i]))
                   => /\ StatusOf(result.processedData, i) = Isento
                      /\ parseAmount(Get(result.processedData[i], config.mapping.amount)) = 0
        /\ result.summary.total_amount_removed
               = SumAmounts(result.processedData, config.mapping.amount,
                            {i \in RowIndexes : StatusOf(result.processedData, i) # Valido})

\* A run with a row without amount cell, after a row with one, that no
\* earlier rule matches and that is 'Isento'.
C27_Witness ==
    /\ Done
    /\ config.exemption.enabled
    /\ config.exemption.amount_threshold > 0
    /\ \E i \in RowIndexes :
           /\ Get(data[i], config.mapping.amount).t = "undef"
           /\ ~PrescriptionMatches(data[i], nows[i])
           /\ ~ImmunityMatches(data[i])
           /\ StatusOf(result.processedData, i) = Isento

\* C28: in the App, handleProcess invokes processData only when a file is
\* selected, the stored raw data is not empty and the four required fields
\* of the mapping it passes are not empty; and with a file and data but an
\* incomplete mapping it sets the mapping error and leaves isLoading false
\* and the result unchanged.
C28_ProcessOnlyWhenReady ==
    [][/\ calls' # calls
           => /\ file # NoFile
              /\ Len(rawDataRef) > 0
              /\ IsMappingValid(config'.mapping)
       /\ (HandleProcess /\ file # NoFile /\ Len(rawDataRef) > 0 /\ ~IsMappingValid(mapping))
           => /\ error' = <<"Por favor, mapeie todos os campos obrigatórios.">>
              /\ ~isLoading'
              /\ appResult' = appResult]_vars

\* The cleared state of the App.
Cleared ==
    /\ file = NoFile
    /\ columns = <<>>
    /\ mapping = DEFAULT_MAPPING
    /\ ~appResult.shown
    /\ error = NoError
    /\ rawDataRef = <<>>
    /\ processedDataRef = <<>>

\* C29: once handleClearFile has run, the App stays in its cleared state (no
\* file, no columns, the default mapping, no result, no error, no raw and no
\* processed data) until the next file is selected, whatever a handleProcess
\* that was waiting at an await when the file was cleared does afterwards.
C29_StaysCleared == [][(Cleared /\ file' = NoFile) => Cleared']_vars

\* C30: in the App that calls the server, the column list belongs to the
\* selected file in every reachable state: it is empty when no file is
\* selected, and otherwise it is empty or the header row of the selected
\* file, whatever the order in which the responses of /analyze-headers
\* arrive relative to handleClearFile and to later selections.
C30_ColumnsOfSelectedFile ==
    /\ file = NoFile => columns = <<>>
    /\ file # NoFile => columns \in {<<>>, readExcelFile(file).columns}

=============================================================================
